---- MODULE Spec2Model ----
(***************************************************************************)
(* ESHM: a named shared-memory region with two sequence-locked channels,   *)
(* a heartbeat per side, a staleness monitor and the SLAVE's reattach      *)
(* loop.  The model follows eshm.cpp: one action per step of a handler or  *)
(* of a background thread, at the grain of one access to shared memory.    *)
(***************************************************************************)
EXTENDS Integers, Sequences, FiniteSets, TLC

(***************************************************************************)
(* Bounds of the model.                                                    *)
(***************************************************************************)
\* channel capacity in bytes (ESHM_MAX_DATA_SIZE, 4096 in the default build)
MaxDataSize == 2
\* eshm_write calls started over one run
MaxWrites == 3
\* heartbeat increments of the first MASTER generation; a later generation
\* may count one further, so that the cap never makes two generations agree
MaxHeartbeat == 1
\* region objects ever created under the name
MaxRegions == 2
\* mappings a process ever makes of the region
MaxMaps == 2
\* monitor ticks after which the millisecond counters of the monitor stop
\* growing (they count in steps of check_interval_ms)
MaxTicks == 3

(***************************************************************************)
(* Program constants.                                                      *)
(***************************************************************************)
ESHM_MAGIC == 1163086925
ESHM_VERSION == 2
check_interval_ms == 10

ESHM_SUCCESS == 0
ESHM_ERROR_INVALID_PARAM == -1
ESHM_ERROR_NO_DATA == -9
ESHM_ERROR_TIMEOUT == -10
ESHM_ERROR_MASTER_STALE == -11
ESHM_ERROR_BUFFER_TOO_SMALL == -13
ESHM_ERROR_NOT_INITIALIZED == -14

ESHM_ROLE_MASTER == "MASTER"
ESHM_ROLE_SLAVE == "SLAVE"
ESHM_ROLE_AUTO == "AUTO"

ESHM_DISCONNECT_IMMEDIATELY == "IMMEDIATELY"
ESHM_DISCONNECT_ON_TIMEOUT == "ON_TIMEOUT"
ESHM_DISCONNECT_NEVER == "NEVER"

\* the processes of a run: two MASTER incarnations and one SLAVE
Handles == {"M1", "M2", "S"}
Masters == {"M1", "M2"}
Channels == {"master_to_slave", "slave_to_master"}
RegionIds == 1..MaxRegions
MapIds == 1..MaxMaps

VARIABLES
    named,      \* the region object the POSIX name refers to, 0 when unlinked
    nregions,   \* region objects created so far
    region,     \* region object -> ESHMData
    handle,     \* process -> its ESHMHandle and process state
    maps,       \* process -> mapping -> [region, live]
    hbt,        \* process -> heartbeat thread: pc, pointer snapshot
    mon,        \* process -> monitor thread: pc and its locals
    call,       \* process -> the caller's entry point in progress and its locals
    hist        \* history: the writes started, faults, calls made

vars == <<named, nregions, region, handle, maps, hbt, mon, call, hist>>

(***************************************************************************)
(* Shared region: struct ESHMData.                                         *)
(***************************************************************************)
ZeroChannel ==
    [sequence |-> 0, data_size |-> 0, data |-> [i \in 1..MaxDataSize |-> 0],
     write_count |-> 0, read_count |-> 0]

\* a freshly created object: ftruncate zero-fills it
ZeroData ==
    [header |-> [magic |-> 0, version |-> 0, master_heartbeat |-> 0,
                 slave_heartbeat |-> 0, master_pid |-> "none", slave_pid |-> "none",
                 master_alive |-> 0, slave_alive |-> 0, stale_threshold |-> 0,
                 master_generation |-> 0],
     master_to_slave |-> ZeroChannel,
     slave_to_master |-> ZeroChannel]

init_channel(channel) ==
    [channel EXCEPT !.sequence = 0, !.data_size = 0, !.write_count = 0,
                    !.read_count = 0, !.data = [i \in 1..MaxDataSize |-> 0]]

init_shm_data(stale_threshold_ms) ==
    [header |-> [ZeroData.header EXCEPT !.magic = ESHM_MAGIC,
                                        !.version = ESHM_VERSION,
                                        !.stale_threshold = stale_threshold_ms],
     master_to_slave |-> init_channel(ZeroData.master_to_slave),
     slave_to_master |-> init_channel(ZeroData.slave_to_master)]

(***************************************************************************)
(* Sequence lock.                                                          *)
(***************************************************************************)
seqlock_write_begin(channel) == [channel EXCEPT !.sequence = channel.sequence + 1]

seqlock_write_end(channel) == [channel EXCEPT !.sequence = channel.sequence + 1]

\* the loop condition of seqlock_read_begin: spin while a write is in progress
seqlock_read_spins(seq) == seq % 2 = 1

seqlock_read_retry(channel, seq) == channel.sequence # seq

(***************************************************************************)
(* Pointers into the mapping.  A pointer is a mapping of the process; 0 is *)
(* NULL.  An access through a mapping that was unmapped is undefined: the  *)
(* process takes SIGSEGV, or the address has been handed out again and the *)
(* access lands in the mapping that now lives there.                       *)
(***************************************************************************)
Live(h, p) == p # 0 /\ maps[h][p].live

LiveMaps(h) == {q \in MapIds : maps[h][q].live}

Targets(h, p) ==
    IF Live(h, p) THEN {maps[h][p].region}
    ELSE IF p = 0 THEN {}
    ELSE {maps[h][q].region : q \in LiveMaps(h)}

NoteAccess(h, p) ==
    IF Live(h, p) \/ hist.fault[h] # "none" THEN hist
    ELSE [hist EXCEPT !.fault[h] = IF p = 0 THEN "null" ELSE "unmapped"]

\* the region object a process reaches through its mapping pointer, 0 if none
Watched(h) ==
    IF Live(h, handle[h].shm_data) THEN maps[h][handle[h].shm_data].region ELSE 0

\* history: the MASTER heartbeat cell of region r took a new value, so the
\* count of monitor ticks without a change starts again for a SLAVE mapping r
HeartbeatChanged(r, hs) ==
    [hs EXCEPT !.quiet = [g \in Handles |-> IF Watched(g) = r THEN 0 ELSE hs.quiet[g]]]

WriteChannel(h) ==
    IF handle[h].actual_role = ESHM_ROLE_MASTER THEN "master_to_slave"
    ELSE "slave_to_master"

ReadChannel(h) ==
    IF handle[h].actual_role = ESHM_ROLE_MASTER THEN "slave_to_master"
    ELSE "master_to_slave"

(***************************************************************************)
(* Thread and caller states at rest.                                       *)
(***************************************************************************)
NoThread == [pc |-> "none", snap |-> 0]

NoMonitor ==
    [pc |-> "none", in_reconnect_mode |-> FALSE, reconnect_wait_counter |-> 0,
     reconnect_attempt_counter |-> 0, reconnect_attempts |-> 0,
     old_shm_data |-> 0, stopped_by |-> "none"]

IdleCall ==
    [pc |-> "idle", op |-> "none", snap |-> 0, size |-> 0, id |-> 0, i |-> 0,
     seq |-> 0, last_write_count |-> 0, data_size |-> 0, buffer_size |-> 0,
     buffer |-> <<>>, bytes_read |-> 0, timeout_ms |-> 0, ret |-> 0,
     first |-> FALSE, after_reattach |-> FALSE, is_alive |-> FALSE,
     shm_existed |-> FALSE, role |-> "none", prev |-> 0,
     entered |-> [done |-> 0, stopped |-> FALSE, rejected |-> FALSE,
                  freed |-> FALSE]]

NewHandle(cfg) ==
    [proc |-> "none", config |-> cfg, actual_role |-> cfg.role, shm_fd |-> 0,
     shm_data |-> 0, is_creator |-> FALSE, threads_running |-> FALSE,
     last_remote_heartbeat |-> 0, stale_counter |-> 0, remote_is_stale |-> FALSE,
     nmaps |-> 0]

Config(role, behavior, stale, wait, interval, attempts, threads) ==
    [role |-> role, disconnect_behavior |-> behavior, stale_threshold_ms |-> stale,
     reconnect_wait_ms |-> wait, reconnect_retry_interval_ms |-> interval,
     max_reconnect_attempts |-> attempts, auto_cleanup |-> TRUE,
     use_threads |-> threads, shm_name |-> <<"demo">>]

\* config->shm_name: a pointer that is NULL, or the string it points to
NoName == <<>>

NoMaps == [q \in MapIds |-> [region |-> 0, live |-> FALSE]]

NoHist ==
    [wlog |-> <<>>, fault |-> [h \in Handles |-> "none"], read_since |-> FALSE,
     quiet |-> [h \in Handles |-> 0],
     stale_generation |-> [h \in Handles |-> 0]]

\* the state before any process has called eshm_init, given each one's config
Start(cfgs) ==
    /\ named = 0
    /\ nregions = 0
    /\ region = [r \in RegionIds |-> ZeroData]
    /\ handle = [h \in Handles |-> NewHandle(cfgs[h])]
    /\ maps = [h \in Handles |-> NoMaps]
    /\ hbt = [h \in Handles |-> NoThread]
    /\ mon = [h \in Handles |-> NoMonitor]
    /\ call = [h \in Handles |-> IdleCall]
    /\ hist = NoHist

(***************************************************************************)
(* eshm_init: resolve the role, create, take over or attach, map, fill in  *)
(* the header, start the threads.                                          *)
(***************************************************************************)
Running(h) == handle[h].proc = "live"

Mmap(h, r) ==
    [maps[h] EXCEPT ![handle[h].nmaps + 1] = [region |-> r, live |-> TRUE]]

\* the role-specific part of the header, with a MASTER clearing its outgoing
\* channel as well
SetRoleInfo_reset(data, role, h) ==
    IF role = ESHM_ROLE_MASTER
    THEN [data EXCEPT !.header.master_generation = data.header.master_generation + 1,
                      !.header.master_pid = h,
                      !.header.master_alive = 1,
                      !.header.master_heartbeat = 0,
                      !.master_to_slave = init_channel(data.master_to_slave)]
    ELSE [data EXCEPT !.header.slave_pid = h,
                      !.header.slave_alive = 1,
                      !.header.slave_heartbeat = 0]

\* the role-specific part of the header, written after mapping
SetRoleInfo(data, role, h) ==
    IF role = ESHM_ROLE_MASTER
    THEN [data EXCEPT !.header.master_generation = data.header.master_generation + 1,
                      !.header.master_pid = h,
                      !.header.master_alive = 1,
                      !.header.master_heartbeat = 0]
    ELSE [data EXCEPT !.header.slave_pid = h,
                      !.header.slave_alive = 1,
                      !.header.slave_heartbeat = 0]

\* eshm_init with a SLAVE that opens the name with O_CREAT: it creates the
\* object when there is none
eshm_init_creating(h) ==
    /\ handle[h].proc = "none"
    /\ handle[h].nmaps < MaxMaps
    /\ LET cfg == handle[h].config
           shm_existed == named # 0
           slave_alive == shm_existed /\ region[named].header.slave_alive # 0
           role == IF cfg.role = ESHM_ROLE_AUTO
                   THEN (IF shm_existed THEN ESHM_ROLE_SLAVE ELSE ESHM_ROLE_MASTER)
                   ELSE cfg.role
           is_creator == \/ role = ESHM_ROLE_MASTER
                            /\ ~(cfg.role = ESHM_ROLE_MASTER /\ slave_alive)
                         \/ role = ESHM_ROLE_SLAVE /\ ~shm_existed
           r == IF is_creator THEN nregions + 1 ELSE named
           bad_magic == ~is_creator /\ region[named].header.magic # ESHM_MAGIC
           base == IF is_creator THEN init_shm_data(cfg.stale_threshold_ms)
                   ELSE region[r]
       IN  /\ is_creator => nregions < MaxRegions
           /\ IF bad_magic
              THEN /\ handle' = [handle EXCEPT ![h].proc = "failed"]
                   /\ UNCHANGED <<named, nregions, region, maps, hbt, mon, hist>>
              ELSE /\ named' = r
                   /\ hist' = IF role = ESHM_ROLE_MASTER THEN HeartbeatChanged(r, hist)
                              ELSE hist
                   /\ nregions' = IF is_creator THEN nregions + 1 ELSE nregions
                   /\ region' = [region EXCEPT ![r] = SetRoleInfo(base, role, h)]
                   /\ maps' = [maps EXCEPT ![h] = Mmap(h, r)]
                   /\ handle' = [handle EXCEPT
                          ![h].proc = "live",
                          ![h].actual_role = role,
                          ![h].shm_fd = r,
                          ![h].shm_data = handle[h].nmaps + 1,
                          ![h].nmaps = handle[h].nmaps + 1,
                          ![h].is_creator = is_creator,
                          ![h].threads_running = cfg.use_threads]
                   /\ hbt' = [hbt EXCEPT ![h].pc =
                                  IF cfg.use_threads THEN "loop" ELSE "none"]
                   /\ mon' = [mon EXCEPT ![h].pc =
                                  IF cfg.use_threads THEN "start" ELSE "none"]
    /\ UNCHANGED call

eshm_init(h) ==
    /\ handle[h].proc = "none"
    /\ handle[h].nmaps < MaxMaps
    /\ LET cfg == handle[h].config
           no_name == cfg.shm_name = NoName
           shm_existed == named # 0
           slave_alive == shm_existed /\ region[named].header.slave_alive # 0
           role == IF cfg.role = ESHM_ROLE_AUTO
                   THEN (IF shm_existed THEN ESHM_ROLE_SLAVE ELSE ESHM_ROLE_MASTER)
                   ELSE cfg.role
           is_creator == role = ESHM_ROLE_MASTER
                         /\ ~(cfg.role = ESHM_ROLE_MASTER /\ slave_alive)
           r == IF is_creator THEN nregions + 1 ELSE named
           attach_fails == role = ESHM_ROLE_SLAVE /\ ~shm_existed
           bad_magic == ~is_creator /\ ~attach_fails
                        /\ region[named].header.magic # ESHM_MAGIC
           base == IF is_creator THEN init_shm_data(cfg.stale_threshold_ms)
                   ELSE region[r]
       IN  /\ (is_creator /\ ~no_name) => nregions < MaxRegions
           /\ IF no_name \/ attach_fails \/ bad_magic
              THEN /\ handle' = [handle EXCEPT ![h].proc = "failed"]
                   /\ UNCHANGED <<named, nregions, region, maps, hbt, mon, hist>>
              ELSE /\ named' = r
                   /\ hist' = IF role = ESHM_ROLE_MASTER THEN HeartbeatChanged(r, hist)
                              ELSE hist
                   /\ nregions' = IF is_creator THEN nregions + 1 ELSE nregions
                   /\ region' = [region EXCEPT ![r] = SetRoleInfo(base, role, h)]
                   /\ maps' = [maps EXCEPT ![h] = Mmap(h, r)]
                   /\ handle' = [handle EXCEPT
                          ![h].proc = "live",
                          ![h].actual_role = role,
                          ![h].shm_fd = r,
                          ![h].shm_data = handle[h].nmaps + 1,
                          ![h].nmaps = handle[h].nmaps + 1,
                          ![h].is_creator = is_creator,
                          ![h].threads_running = cfg.use_threads]
                   /\ hbt' = [hbt EXCEPT ![h].pc =
                                  IF cfg.use_threads THEN "loop" ELSE "none"]
                   /\ mon' = [mon EXCEPT ![h].pc =
                                  IF cfg.use_threads THEN "start" ELSE "none"]
    /\ UNCHANGED call

(***************************************************************************)
(* eshm_init step by step, for inits that run at the same time: the        *)
(* existence check, the open or create with the mapping, the creator's     *)
(* init_shm_data (the magic first, then the other fields) or the           *)
(* validation of the magic, and the role-specific part.                    *)
(***************************************************************************)
\* calloc, copy of the config, bool shm_existed = shm_exists(shm_name)
InitExists(h) ==
    /\ handle[h].proc = "none"
    /\ handle' = [handle EXCEPT ![h].proc = "init"]
    /\ call' = [call EXCEPT ![h] =
           [IdleCall EXCEPT !.op = "init", !.pc = "i_open",
                            !.shm_existed = named # 0]]
    /\ UNCHANGED <<named, nregions, region, maps, hbt, mon, hist>>

\* the branch on the requested role: shm_open of the existing object or
\* shm_unlink and shm_open(O_CREAT | O_EXCL) with ftruncate, then mmap
InitOpen(h) ==
    /\ handle[h].proc = "init"
    /\ call[h].pc = "i_open"
    /\ handle[h].nmaps < MaxMaps
    /\ LET cfg == handle[h].config
           existed == call[h].shm_existed
           opened == named # 0
           slave_alive == opened /\ region[named].header.slave_alive # 0
           keeps == /\ existed /\ opened
                    /\ cfg.role = ESHM_ROLE_MASTER => slave_alive
           creates == cfg.role # ESHM_ROLE_SLAVE /\ ~keeps
           excl_fails == creates /\ ~existed /\ opened
           attach_fails == cfg.role = ESHM_ROLE_SLAVE /\ ~opened
           r == IF creates THEN nregions + 1 ELSE named
           role == IF cfg.role = ESHM_ROLE_AUTO
                   THEN (IF creates THEN ESHM_ROLE_MASTER ELSE ESHM_ROLE_SLAVE)
                   ELSE cfg.role
       IN  /\ creates /\ ~excl_fails => nregions < MaxRegions
           /\ IF excl_fails \/ attach_fails
              THEN /\ handle' = [handle EXCEPT ![h].proc = "failed"]
                   /\ call' = [call EXCEPT ![h] = IdleCall]
                   /\ UNCHANGED <<named, nregions, maps>>
              ELSE /\ named' = r
                   /\ nregions' = IF creates THEN nregions + 1 ELSE nregions
                   /\ maps' = [maps EXCEPT ![h] = Mmap(h, r)]
                   /\ handle' = [handle EXCEPT
                          ![h].actual_role = role,
                          ![h].shm_fd = r,
                          ![h].shm_data = handle[h].nmaps + 1,
                          ![h].nmaps = handle[h].nmaps + 1,
                          ![h].is_creator = creates]
                   /\ call' = [call EXCEPT ![h].pc =
                                   IF creates THEN "i_magic" ELSE "i_validate"]
    /\ UNCHANGED <<region, hbt, mon, hist>>

\* init_shm_data: memset(data, 0, sizeof(ESHMData)); header.magic = ESHM_MAGIC
InitMagic(h) ==
    /\ handle[h].proc = "init"
    /\ call[h].pc = "i_magic"
    /\ region' = [region EXCEPT ![handle[h].shm_fd] =
                      [ZeroData EXCEPT !.header.magic = ESHM_MAGIC]]
    /\ call' = [call EXCEPT ![h].pc = "i_rest"]
    /\ UNCHANGED <<named, nregions, handle, maps, hbt, mon, hist>>

\* init_shm_data: the version, the heartbeats, PIDs and alive flags of both
\* sides, the threshold, init_channel of both channels
InitRest(h) ==
    /\ handle[h].proc = "init"
    /\ call[h].pc = "i_rest"
    /\ LET r == handle[h].shm_fd
       IN  region' = [region EXCEPT ![r] =
               [header |-> [region[r].header EXCEPT
                                !.version = ESHM_VERSION,
                                !.master_heartbeat = 0, !.slave_heartbeat = 0,
                                !.master_pid = "none", !.slave_pid = "none",
                                !.master_alive = 0, !.slave_alive = 0,
                                !.stale_threshold = handle[h].config.stale_threshold_ms],
                master_to_slave |-> init_channel(region[r].master_to_slave),
                slave_to_master |-> init_channel(region[r].slave_to_master)]]
    /\ call' = [call EXCEPT ![h].pc = "i_role"]
    /\ UNCHANGED <<named, nregions, handle, maps, hbt, mon, hist>>

\* if (handle->shm_data->header.magic != ESHM_MAGIC) { munmap ...; return NULL; }
InitValidate(h) ==
    /\ handle[h].proc = "init"
    /\ call[h].pc = "i_validate"
    /\ IF region[handle[h].shm_fd].header.magic # ESHM_MAGIC
       THEN /\ handle' = [handle EXCEPT ![h].proc = "failed", ![h].shm_data = 0]
            /\ maps' = [maps EXCEPT ![h][handle[h].shm_data].live = FALSE]
            /\ call' = [call EXCEPT ![h] = IdleCall]
       ELSE /\ call' = [call EXCEPT ![h].pc = "i_role"]
            /\ UNCHANGED <<handle, maps>>
    /\ UNCHANGED <<named, nregions, region, hbt, mon, hist>>

\* the role-specific information, the threads, return handle
InitRole(h) ==
    /\ handle[h].proc = "init"
    /\ call[h].pc = "i_role"
    /\ LET r == handle[h].shm_fd
           cfg == handle[h].config
       IN  /\ region' = [region EXCEPT ![r] =
                             SetRoleInfo(region[r], handle[h].actual_role, h)]
           /\ hist' = IF handle[h].actual_role = ESHM_ROLE_MASTER
                      THEN HeartbeatChanged(r, hist) ELSE hist
           /\ handle' = [handle EXCEPT ![h].proc = "live",
                                       ![h].threads_running = cfg.use_threads]
           /\ hbt' = [hbt EXCEPT ![h].pc = IF cfg.use_threads THEN "loop" ELSE "none"]
           /\ mon' = [mon EXCEPT ![h].pc = IF cfg.use_threads THEN "start" ELSE "none"]
    /\ call' = [call EXCEPT ![h] = IdleCall]
    /\ UNCHANGED <<named, nregions, maps>>

eshm_init_steps(h) ==
    \/ InitExists(h)
    \/ InitOpen(h)
    \/ InitMagic(h)
    \/ InitRest(h)
    \/ InitValidate(h)
    \/ InitRole(h)

\* the process exits abruptly (_exit, SIGKILL): nothing in the region is undone
Kill(h) ==
    /\ Running(h)
    /\ handle' = [handle EXCEPT ![h].proc = "exited"]
    /\ maps' = [maps EXCEPT ![h] = [q \in MapIds |-> [maps[h][q] EXCEPT !.live = FALSE]]]
    /\ UNCHANGED <<named, nregions, region, hbt, mon, call, hist>>

\* the program of h runs again after its handle was destroyed or its process
\* exited: a new handle with the same configuration, not yet initialized
Restart(h) ==
    /\ handle[h].proc \in {"exited", "destroyed"}
    /\ handle' = [handle EXCEPT ![h] =
                      [NewHandle(handle[h].config) EXCEPT !.nmaps = handle[h].nmaps]]
    /\ hbt' = [hbt EXCEPT ![h] = NoThread]
    /\ mon' = [mon EXCEPT ![h] = NoMonitor]
    /\ call' = [call EXCEPT ![h] = IdleCall]
    /\ UNCHANGED <<named, nregions, region, maps, hist>>

(***************************************************************************)
(* An access of a thread through a pointer it holds.  Segv is the outcome  *)
(* of an access to an address nothing is mapped at: the process dies.      *)
(***************************************************************************)
WritePcs == {"w_begin", "w_copy", "w_size", "w_end", "w_count"}
ReadPcs == {"r_base", "r_count", "r_seq", "r_chk", "r_size", "r_copy", "r_retry", "r_done"}
StatsPcs == {"g_header", "g_channels"}

PendingPtrs(h) ==
    (IF hbt[h].pc = "inc" THEN {hbt[h].snap} ELSE {})
    \cup (IF call[h].pc \in WritePcs \cup ReadPcs THEN {call[h].snap} ELSE {})
    \cup (IF call[h].pc \in StatsPcs THEN {handle[h].shm_data} ELSE {})

Segv(h) ==
    /\ Running(h)
    /\ \E p \in PendingPtrs(h) :
          /\ ~Live(h, p)
          /\ hist' = NoteAccess(h, p)
    /\ handle' = [handle EXCEPT ![h].proc = "exited"]
    /\ maps' = [maps EXCEPT ![h] = [q \in MapIds |-> [maps[h][q] EXCEPT !.live = FALSE]]]
    /\ UNCHANGED <<named, nregions, region, hbt, mon, call>>

(***************************************************************************)
(* eshm_write.                                                             *)
(***************************************************************************)
CallFree(h) == Running(h) /\ call[h].pc \in {"idle", "ret"}

\* the locals of the call go out of scope; what the caller got stays
Return(h, code) ==
    [call[h] EXCEPT !.pc = "ret", !.ret = code, !.snap = 0, !.i = 0, !.seq = 0,
                    !.last_write_count = 0, !.data_size = 0]

\* the return of an entry point that found the mapping pointer NULL
NullReturn(h) ==
    Return(h, IF handle[h].remote_is_stale THEN ESHM_ERROR_TIMEOUT
              ELSE ESHM_ERROR_NOT_INITIALIZED)

WritesDone == Cardinality({k \in DOMAIN hist.wlog : hist.wlog[k].done})

\* history of a call: the writes completed and the state of the monitor when
\* it was entered, whether the call before it on this handle was a read that
\* returned BUFFER_TOO_SMALL, and whether the handle had been freed
Entered(h) ==
    [done |-> WritesDone, stopped |-> mon[h].stopped_by # "none",
     rejected |-> /\ call[h].op = "read" /\ call[h].pc = "ret"
                  /\ call[h].ret = ESHM_ERROR_BUFFER_TOO_SMALL,
     freed |-> handle[h].proc = "destroyed"]

\* the entry with a size check that rejects the full capacity as well
WriteCall_strict(h, size) ==
    /\ CallFree(h)
    /\ Len(hist.wlog) < MaxWrites
    /\ LET c == [IdleCall EXCEPT !.op = "write", !.size = size,
                                 !.snap = handle[h].shm_data,
                                 !.entered = Entered(h)]
       IN  IF c.snap = 0
           THEN /\ call' = [call EXCEPT ![h] = [c EXCEPT !.pc = "null"]]
                /\ hist' = hist
           ELSE IF size >= MaxDataSize
           THEN /\ call' = [call EXCEPT ![h] =
                       [c EXCEPT !.pc = "ret", !.ret = ESHM_ERROR_BUFFER_TOO_SMALL]]
                /\ hist' = hist
           ELSE /\ call' = [call EXCEPT ![h] =
                       [c EXCEPT !.pc = "w_begin", !.id = Len(hist.wlog) + 1]]
                /\ hist' = [hist EXCEPT !.wlog = Append(hist.wlog,
                       [h |-> h, size |-> size, done |-> FALSE,
                        peers |-> {g \in Handles \ {h} : Running(g)}])]
    /\ UNCHANGED <<named, nregions, region, handle, maps, hbt, mon>>

\* entry with the given size: snapshot the pointer, check the size
WriteCall(h, size) ==
    /\ CallFree(h)
    /\ Len(hist.wlog) < MaxWrites
    /\ LET c == [IdleCall EXCEPT !.op = "write", !.size = size,
                                 !.snap = handle[h].shm_data,
                                 !.entered = Entered(h)]
       IN  IF c.snap = 0
           THEN /\ call' = [call EXCEPT ![h] = [c EXCEPT !.pc = "null"]]
                /\ hist' = hist
           ELSE IF size > MaxDataSize
           THEN /\ call' = [call EXCEPT ![h] =
                       [c EXCEPT !.pc = "ret", !.ret = ESHM_ERROR_BUFFER_TOO_SMALL]]
                /\ hist' = hist
           ELSE /\ call' = [call EXCEPT ![h] =
                       [c EXCEPT !.pc = "w_begin", !.id = Len(hist.wlog) + 1]]
                /\ hist' = [hist EXCEPT !.wlog = Append(hist.wlog,
                       [h |-> h, size |-> size, done |-> FALSE,
                        peers |-> {g \in Handles \ {h} : Running(g)}])]
    /\ UNCHANGED <<named, nregions, region, handle, maps, hbt, mon>>

\* entry with any size up to one beyond the capacity
WriteEnter(h) == \E size \in 0..(MaxDataSize + 1) : WriteCall(h, size)

\* the pointer was NULL: read remote_is_stale and return
NullExit(h) ==
    /\ Running(h)
    /\ call[h].pc = "null"
    /\ call' = [call EXCEPT ![h] = NullReturn(h)]
    /\ UNCHANGED <<named, nregions, region, handle, maps, hbt, mon, hist>>

WriteBegin(h) ==
    /\ Running(h)
    /\ call[h].pc = "w_begin"
    /\ \E r \in Targets(h, call[h].snap) :
          region' = [region EXCEPT ![r][WriteChannel(h)] =
                         seqlock_write_begin(region[r][WriteChannel(h)])]
    /\ call' = [call EXCEPT ![h].pc = IF call[h].size = 0 THEN "w_size" ELSE "w_copy",
                            ![h].i = 1]
    /\ hist' = NoteAccess(h, call[h].snap)
    /\ UNCHANGED <<named, nregions, handle, maps, hbt, mon>>

\* memcpy(channel->data, data, size), one byte a step; every byte of the
\* payload of the k-th write started is k
WriteCopy(h) ==
    /\ Running(h)
    /\ call[h].pc = "w_copy"
    /\ \E r \in Targets(h, call[h].snap) :
          region' = [region EXCEPT ![r][WriteChannel(h)].data[call[h].i] = call[h].id]
    /\ call' = [call EXCEPT ![h].pc = IF call[h].i = call[h].size THEN "w_size" ELSE "w_copy",
                            ![h].i = call[h].i + 1]
    /\ hist' = NoteAccess(h, call[h].snap)
    /\ UNCHANGED <<named, nregions, handle, maps, hbt, mon>>

WriteSize(h) ==
    /\ Running(h)
    /\ call[h].pc = "w_size"
    /\ \E r \in Targets(h, call[h].snap) :
          region' = [region EXCEPT ![r][WriteChannel(h)].data_size = call[h].size]
    /\ call' = [call EXCEPT ![h].pc = "w_end"]
    /\ hist' = NoteAccess(h, call[h].snap)
    /\ UNCHANGED <<named, nregions, handle, maps, hbt, mon>>

WriteEnd(h) ==
    /\ Running(h)
    /\ call[h].pc = "w_end"
    /\ \E r \in Targets(h, call[h].snap) :
          region' = [region EXCEPT ![r][WriteChannel(h)] =
                         seqlock_write_end(region[r][WriteChannel(h)])]
    /\ call' = [call EXCEPT ![h].pc = "w_count"]
    /\ hist' = NoteAccess(h, call[h].snap)
    /\ UNCHANGED <<named, nregions, handle, maps, hbt, mon>>

\* the last step of a write that counts only writes with a payload
WriteCount_nonempty(h) ==
    /\ Running(h)
    /\ call[h].pc = "w_count"
    /\ \E r \in Targets(h, call[h].snap) :
          region' = [region EXCEPT ![r][WriteChannel(h)].write_count =
                         IF call[h].size = 0 THEN @ ELSE @ + 1]
    /\ call' = [call EXCEPT ![h] = Return(h, ESHM_SUCCESS)]
    /\ hist' = [NoteAccess(h, call[h].snap) EXCEPT !.wlog[call[h].id].done = TRUE,
                                                   !.read_since = FALSE]
    /\ UNCHANGED <<named, nregions, handle, maps, hbt, mon>>

\* __sync_fetch_and_add(&channel->write_count, 1); return ESHM_SUCCESS
WriteCount(h) ==
    /\ Running(h)
    /\ call[h].pc = "w_count"
    /\ \E r \in Targets(h, call[h].snap) :
          region' = [region EXCEPT ![r][WriteChannel(h)].write_count =
                         region[r][WriteChannel(h)].write_count + 1]
    /\ call' = [call EXCEPT ![h] = Return(h, ESHM_SUCCESS)]
    /\ hist' = [NoteAccess(h, call[h].snap) EXCEPT !.wlog[call[h].id].done = TRUE,
                                                   !.read_since = FALSE]
    /\ UNCHANGED <<named, nregions, handle, maps, hbt, mon>>

eshm_write(h) ==
    \/ WriteEnter(h)
    \/ NullExit(h)
    \/ WriteBegin(h)
    \/ WriteCopy(h)
    \/ WriteSize(h)
    \/ WriteEnd(h)
    \/ WriteCount(h)

(***************************************************************************)
(* eshm_read_timeout.                                                      *)
(***************************************************************************)
\* history of a read: the write whose bytes the call before it on this
\* handle delivered, if that was a read returning SUCCESS with a payload
LastDelivered(h) ==
    IF /\ call[h].op = "read" /\ call[h].pc = "ret"
       /\ call[h].ret = ESHM_SUCCESS /\ call[h].buffer # <<>>
    THEN call[h].buffer[1]
    ELSE 0

\* the entry of a read that does not look at remote_is_stale
ReadCall_unchecked(h, buffer_size, timeout_ms) ==
    /\ CallFree(h)
    /\ LET c == [IdleCall EXCEPT !.op = "read", !.buffer_size = buffer_size,
                                 !.timeout_ms = timeout_ms,
                                 !.snap = handle[h].shm_data,
                                 !.entered = Entered(h),
                                 !.prev = LastDelivered(h)]
       IN  call' = [call EXCEPT ![h] =
               IF c.snap = 0 THEN [c EXCEPT !.pc = "r_null"]
               ELSE [c EXCEPT !.pc = "r_base"]]
    /\ hist' = hist
    /\ UNCHANGED <<named, nregions, region, handle, maps, hbt, mon>>

\* entry with the given buffer size and timeout: snapshot the pointer; with
\* IMMEDIATELY a stale remote ends the call
ReadCall(h, buffer_size, timeout_ms) ==
    /\ CallFree(h)
    /\ LET c == [IdleCall EXCEPT !.op = "read", !.buffer_size = buffer_size,
                                 !.timeout_ms = timeout_ms,
                                 !.snap = handle[h].shm_data,
                                 !.entered = Entered(h),
                                 !.prev = LastDelivered(h)]
       IN  call' = [call EXCEPT ![h] =
               IF c.snap = 0 THEN [c EXCEPT !.pc = "r_null"]
               ELSE IF handle[h].remote_is_stale
                       /\ handle[h].config.disconnect_behavior = ESHM_DISCONNECT_IMMEDIATELY
               THEN [c EXCEPT !.pc = "ret", !.ret = ESHM_ERROR_MASTER_STALE,
                              !.first = ~hist.read_since]
               ELSE [c EXCEPT !.pc = "r_base"]]
    /\ hist' = IF call'[h].pc = "ret" THEN [hist EXCEPT !.read_since = TRUE] ELSE hist
    /\ UNCHANGED <<named, nregions, region, handle, maps, hbt, mon>>

\* entry with a buffer of the capacity or one byte less, polling or blocking
ReadEnter(h) ==
    \E buffer_size \in {MaxDataSize - 1, MaxDataSize}, timeout_ms \in {0, 1000} :
        ReadCall(h, buffer_size, timeout_ms)

\* eshm_read: the blocking read with the default timeout
eshm_read(h) == ReadCall(h, MaxDataSize, 1000)

\* the return of a read: note whether it is the first since the last write
\* and whether the monitor has adopted a new mapping by now
ReadReturn(h, code) ==
    [Return(h, code) EXCEPT !.first = ~hist.read_since,
                            !.after_reattach = handle[h].nmaps > 1]

ReadNullExit(h) ==
    /\ Running(h)
    /\ call[h].pc = "r_null"
    /\ call' = [call EXCEPT ![h] = [NullReturn(h) EXCEPT !.first = ~hist.read_since]]
    /\ hist' = [hist EXCEPT !.read_since = TRUE]
    /\ UNCHANGED <<named, nregions, region, handle, maps, hbt, mon>>

\* a read whose baseline is zero, not the counter found at entry
ReadBase_zero(h) ==
    /\ Running(h)
    /\ call[h].pc = "r_base"
    /\ \E r \in Targets(h, call[h].snap) :
          call' = [call EXCEPT ![h].pc = "r_poll",
                               ![h].last_write_count = 0]
    /\ hist' = NoteAccess(h, call[h].snap)
    /\ UNCHANGED <<named, nregions, region, handle, maps, hbt, mon>>

\* uint64_t last_write_count = channel->write_count
ReadBase(h) ==
    /\ Running(h)
    /\ call[h].pc = "r_base"
    /\ \E r \in Targets(h, call[h].snap) :
          call' = [call EXCEPT ![h].pc = "r_poll",
                               ![h].last_write_count = region[r][ReadChannel(h)].write_count]
    /\ hist' = NoteAccess(h, call[h].snap)
    /\ UNCHANGED <<named, nregions, region, handle, maps, hbt, mon>>

\* top of the loop: if (!handle->shm_data)
ReadPoll(h) ==
    /\ Running(h)
    /\ call[h].pc = "r_poll"
    /\ call' = [call EXCEPT ![h].pc = IF handle[h].shm_data = 0 THEN "r_null" ELSE "r_count"]
    /\ UNCHANGED <<named, nregions, region, handle, maps, hbt, mon, hist>>

\* current_write_count > last_write_count, else the timeout checks and the
\* sleep; whether the wall-clock budget has elapsed is not decided by the state
ReadCount(h) ==
    /\ Running(h)
    /\ call[h].pc = "r_count"
    /\ \E r \in Targets(h, call[h].snap), elapsed \in BOOLEAN :
          LET current_write_count == region[r][ReadChannel(h)].write_count
          IN  /\ call' = [call EXCEPT ![h] =
                     IF current_write_count > call[h].last_write_count
                     THEN [call[h] EXCEPT !.pc = "r_seq"]
                     ELSE IF call[h].timeout_ms = 0
                     THEN ReadReturn(h, ESHM_ERROR_NO_DATA)
                     ELSE IF elapsed THEN ReadReturn(h, ESHM_ERROR_TIMEOUT)
                     ELSE [call[h] EXCEPT !.pc = "r_poll"]]
              /\ elapsed => /\ current_write_count <= call[h].last_write_count
                            /\ call[h].timeout_ms # 0
    /\ hist' = IF call'[h].pc = "ret"
               THEN [NoteAccess(h, call[h].snap) EXCEPT !.read_since = TRUE]
               ELSE NoteAccess(h, call[h].snap)
    /\ UNCHANGED <<named, nregions, region, handle, maps, hbt, mon>>

\* seqlock_read_begin: one load of the counter; an odd value spins
ReadSeq(h) ==
    /\ Running(h)
    /\ call[h].pc = "r_seq"
    /\ \E r \in Targets(h, call[h].snap) :
          LET seq == region[r][ReadChannel(h)].sequence
          IN  call' = [call EXCEPT ![h].pc = IF seqlock_read_spins(seq) THEN "r_seq" ELSE "r_chk",
                                   ![h].seq = seq]
    /\ hist' = NoteAccess(h, call[h].snap)
    /\ UNCHANGED <<named, nregions, region, handle, maps, hbt, mon>>

\* if (buffer_size < channel->data_size) return ESHM_ERROR_BUFFER_TOO_SMALL
ReadCheck(h) ==
    /\ Running(h)
    /\ call[h].pc = "r_chk"
    /\ \E r \in Targets(h, call[h].snap) :
          call' = [call EXCEPT ![h] =
              IF call[h].buffer_size < region[r][ReadChannel(h)].data_size
              THEN ReadReturn(h, ESHM_ERROR_BUFFER_TOO_SMALL)
              ELSE [call[h] EXCEPT !.pc = "r_size"]]
    /\ hist' = IF call'[h].pc = "ret"
               THEN [NoteAccess(h, call[h].snap) EXCEPT !.read_since = TRUE]
               ELSE NoteAccess(h, call[h].snap)
    /\ UNCHANGED <<named, nregions, region, handle, maps, hbt, mon>>

\* size_t data_size = channel->data_size
ReadSize(h) ==
    /\ Running(h)
    /\ call[h].pc = "r_size"
    /\ \E r \in Targets(h, call[h].snap) :
          LET data_size == region[r][ReadChannel(h)].data_size
          IN  call' = [call EXCEPT ![h].pc = IF data_size = 0 THEN "r_retry" ELSE "r_copy",
                                   ![h].data_size = data_size,
                                   ![h].bytes_read = IF data_size = 0 THEN 0
                                                     ELSE call[h].bytes_read,
                                   ![h].buffer = <<>>,
                                   ![h].i = 1]
    /\ hist' = NoteAccess(h, call[h].snap)
    /\ UNCHANGED <<named, nregions, region, handle, maps, hbt, mon>>

\* memcpy(buffer, channel->data, data_size), one byte a step; *bytes_read
ReadCopy(h) ==
    /\ Running(h)
    /\ call[h].pc = "r_copy"
    /\ \E r \in Targets(h, call[h].snap) :
          LET last == call[h].i = call[h].data_size
          IN  call' = [call EXCEPT
                  ![h].pc = IF last THEN "r_retry" ELSE "r_copy",
                  ![h].buffer = Append(call[h].buffer,
                                       region[r][ReadChannel(h)].data[call[h].i]),
                  ![h].bytes_read = IF last THEN call[h].data_size ELSE call[h].bytes_read,
                  ![h].i = call[h].i + 1]
    /\ hist' = NoteAccess(h, call[h].snap)
    /\ UNCHANGED <<named, nregions, region, handle, maps, hbt, mon>>

ReadRetry(h) ==
    /\ Running(h)
    /\ call[h].pc = "r_retry"
    /\ \E r \in Targets(h, call[h].snap) :
          call' = [call EXCEPT ![h].pc =
              IF seqlock_read_retry(region[r][ReadChannel(h)], call[h].seq)
              THEN "r_seq" ELSE "r_done"]
    /\ hist' = NoteAccess(h, call[h].snap)
    /\ UNCHANGED <<named, nregions, region, handle, maps, hbt, mon>>

\* __sync_fetch_and_add(&channel->read_count, 1); return ESHM_SUCCESS.
\* read_count is advisory and is kept within the bound of the writes.
ReadDone(h) ==
    /\ Running(h)
    /\ call[h].pc = "r_done"
    /\ \E r \in Targets(h, call[h].snap) :
          region' = [region EXCEPT ![r][ReadChannel(h)].read_count =
              IF region[r][ReadChannel(h)].read_count < MaxWrites
              THEN region[r][ReadChannel(h)].read_count + 1
              ELSE region[r][ReadChannel(h)].read_count]
    /\ call' = [call EXCEPT ![h] = ReadReturn(h, ESHM_SUCCESS)]
    /\ hist' = [NoteAccess(h, call[h].snap) EXCEPT !.read_since = TRUE]
    /\ UNCHANGED <<named, nregions, handle, maps, hbt, mon>>

eshm_read_timeout(h) ==
    \/ ReadEnter(h)
    \/ ReadNullExit(h)
    \/ ReadBase(h)
    \/ ReadPoll(h)
    \/ ReadCount(h)
    \/ ReadSeq(h)
    \/ ReadCheck(h)
    \/ ReadSize(h)
    \/ ReadCopy(h)
    \/ ReadRetry(h)
    \/ ReadDone(h)

(***************************************************************************)
(* heartbeat_thread_func: every millisecond, snapshot the pointer and add  *)
(* one to the heartbeat of the own side.                                   *)
(***************************************************************************)
Min(a, b) == IF a < b THEN a ELSE b

\* the heartbeat is a 64-bit counter; in the model it stops growing at a cap,
\* which is one higher for the second MASTER than for the first
HeartbeatCap(h) == IF h = "M2" THEN MaxHeartbeat + 1 ELSE MaxHeartbeat

\* while (handle->threads_running) { snapshot = handle->shm_data; ...
HbLoop(h) ==
    /\ Running(h)
    /\ hbt[h].pc = "loop"
    /\ hbt' = [hbt EXCEPT ![h] =
           IF ~handle[h].threads_running THEN [pc |-> "done", snap |-> 0]
           ELSE IF handle[h].shm_data = 0 THEN [pc |-> "loop", snap |-> 0]
           ELSE [pc |-> "inc", snap |-> handle[h].shm_data]]
    /\ UNCHANGED <<named, nregions, region, handle, maps, mon, call, hist>>

\* __sync_fetch_and_add(&shm_data_snapshot->header.<side>_heartbeat, 1)
HbInc(h) ==
    /\ Running(h)
    /\ hbt[h].pc = "inc"
    /\ \E r \in Targets(h, hbt[h].snap) :
          /\ region' = IF handle[h].actual_role = ESHM_ROLE_MASTER
                       THEN [region EXCEPT ![r].header.master_heartbeat =
                                 Min(region[r].header.master_heartbeat + 1, HeartbeatCap(h))]
                       ELSE [region EXCEPT ![r].header.slave_heartbeat =
                                 Min(region[r].header.slave_heartbeat + 1, HeartbeatCap(h))]
          /\ hist' = IF region'[r].header.master_heartbeat
                          # region[r].header.master_heartbeat
                     THEN HeartbeatChanged(r, NoteAccess(h, hbt[h].snap))
                     ELSE NoteAccess(h, hbt[h].snap)
    /\ hbt' = [hbt EXCEPT ![h] = [pc |-> "loop", snap |-> 0]]
    /\ UNCHANGED <<named, nregions, handle, maps, mon, call>>

heartbeat_thread_func(h) == HbLoop(h) \/ HbInc(h)

(***************************************************************************)
(* monitor_thread_func: every check_interval_ms, compare the remote        *)
(* heartbeat with the last one seen; a SLAVE whose MASTER went stale       *)
(* detaches and tries to reattach until a bound stops it.                  *)
(***************************************************************************)
\* the millisecond counters grow without bound in the code
Saturate(ms) == Min(ms, MaxTicks * check_interval_ms)

\* handle->threads_running = false; break
MonStop(h, why) == [mon[h] EXCEPT !.pc = "done", !.stopped_by = why]

\* the time-based bound, checked at the end of every tick in reattach mode
WaitExpired(h, wait_counter) ==
    /\ handle[h].config.reconnect_wait_ms > 0
    /\ wait_counter >= handle[h].config.reconnect_wait_ms

\* the attempt bound taken one attempt too late
AttemptsExhausted_late(h, attempts) ==
    /\ handle[h].config.max_reconnect_attempts > 0
    /\ attempts > handle[h].config.max_reconnect_attempts

\* the attempt bound, checked after every failed attempt
AttemptsExhausted(h, attempts) ==
    /\ handle[h].config.max_reconnect_attempts > 0
    /\ attempts >= handle[h].config.max_reconnect_attempts

\* the threshold test taken two ticks too late
IsStale_late(stale_counter, stale_threshold) ==
    stale_counter > stale_threshold + check_interval_ms

\* if (handle->stale_counter >= stale_threshold)
IsStale(stale_counter, stale_threshold) == stale_counter >= stale_threshold

\* history: one more tick of a SLAVE's monitor that began with the MASTER not
\* declared stale
QuietTick(h, hs) ==
    IF handle[h].actual_role = ESHM_ROLE_SLAVE /\ ~handle[h].remote_is_stale
    THEN [hs EXCEPT !.quiet[h] = Min(hs.quiet[h] + 1, MaxTicks + 1)]
    ELSE hs

\* history: the MASTER generation of the region at the tick that declares
\* its MASTER stale
DeclaredStale(h, r, hs) ==
    [hs EXCEPT !.stale_generation[h] = region[r].header.master_generation]

MonStart(h) ==
    /\ Running(h)
    /\ mon[h].pc = "start"
    /\ handle' = [handle EXCEPT ![h].last_remote_heartbeat = 0,
                                ![h].stale_counter = 0,
                                ![h].remote_is_stale = FALSE]
    /\ mon' = [mon EXCEPT ![h].pc = "tick"]
    /\ UNCHANGED <<named, nregions, region, maps, hbt, call, hist>>

\* the loop condition failed: the thread returns
MonExit(h) ==
    /\ Running(h)
    /\ mon[h].pc = "tick"
    /\ ~handle[h].threads_running
    /\ mon' = [mon EXCEPT ![h].pc = "done"]
    /\ UNCHANGED <<named, nregions, region, handle, maps, hbt, call, hist>>

\* a tick in reattach mode up to the store of NULL, or to the bound check
\* when it is not yet time for an attempt
MonReattachTick(h) ==
    /\ Running(h)
    /\ mon[h].pc = "tick"
    /\ handle[h].threads_running
    /\ handle[h].actual_role = ESHM_ROLE_SLAVE /\ mon[h].in_reconnect_mode
    /\ LET wait_counter == Saturate(mon[h].reconnect_wait_counter + check_interval_ms)
           attempt_counter == mon[h].reconnect_attempt_counter + check_interval_ms
           m == [mon[h] EXCEPT !.reconnect_wait_counter = wait_counter]
       IN  IF attempt_counter >= handle[h].config.reconnect_retry_interval_ms
           THEN /\ mon' = [mon EXCEPT ![h] =
                       [m EXCEPT !.reconnect_attempt_counter = 0,
                                 !.reconnect_attempts = Min(mon[h].reconnect_attempts + 1, MaxTicks),
                                 !.old_shm_data = handle[h].shm_data,
                                 !.pc = IF handle[h].shm_data # 0 THEN "quiesce"
                                        ELSE "attach"]]
                /\ handle' = [handle EXCEPT ![h].shm_data = 0]
           ELSE IF WaitExpired(h, wait_counter)
           THEN /\ mon' = [mon EXCEPT ![h] =
                       [MonStop(h, "wait_timeout") EXCEPT
                            !.reconnect_wait_counter = wait_counter,
                            !.reconnect_attempt_counter = attempt_counter]]
                /\ handle' = [handle EXCEPT ![h].threads_running = FALSE]
           ELSE /\ mon' = [mon EXCEPT ![h] =
                       [m EXCEPT !.reconnect_attempt_counter = attempt_counter]]
                /\ handle' = handle
    /\ UNCHANGED <<named, nregions, region, maps, hbt, call, hist>>

\* sleep_ms(20); munmap(old_shm_data, sizeof(ESHMData))
MonUnmap(h) ==
    /\ Running(h)
    /\ mon[h].pc = "quiesce"
    /\ maps' = [maps EXCEPT ![h][mon[h].old_shm_data].live = FALSE]
    /\ mon' = [mon EXCEPT ![h].pc = "attach", ![h].old_shm_data = 0]
    /\ UNCHANGED <<named, nregions, region, handle, hbt, call, hist>>

\* an attempt that adopts every region with a valid magic, whatever its
\* MASTER heartbeat
MonAttach_anyheartbeat(h) ==
    /\ Running(h)
    /\ mon[h].pc = "attach"
    /\ LET opened == named # 0
           valid == opened /\ region[named].header.magic = ESHM_MAGIC
           new_master_heartbeat == region[named].header.master_heartbeat
       IN  IF valid
           THEN /\ handle[h].nmaps < MaxMaps
                /\ maps' = [maps EXCEPT ![h] = Mmap(h, named)]
                /\ region' = [region EXCEPT ![named].header.slave_pid = h,
                                            ![named].header.slave_alive = 1]
                /\ handle' = [handle EXCEPT
                       ![h].shm_fd = named,
                       ![h].shm_data = handle[h].nmaps + 1,
                       ![h].nmaps = handle[h].nmaps + 1,
                       ![h].remote_is_stale = FALSE,
                       ![h].stale_counter = 0,
                       ![h].last_remote_heartbeat = new_master_heartbeat]
                /\ mon' = [mon EXCEPT ![h] =
                       [mon[h] EXCEPT !.pc = "tick", !.in_reconnect_mode = FALSE,
                                      !.reconnect_wait_counter = 0,
                                      !.reconnect_attempt_counter = 0,
                                      !.reconnect_attempts = 0]]
                /\ hist' = [hist EXCEPT !.quiet[h] = 0]
           ELSE /\ UNCHANGED <<maps, region, hist>>
                /\ IF AttemptsExhausted(h, mon[h].reconnect_attempts)
                   THEN /\ mon' = [mon EXCEPT ![h] = MonStop(h, "max_attempts")]
                        /\ handle' = [handle EXCEPT ![h].threads_running = FALSE]
                   ELSE IF WaitExpired(h, mon[h].reconnect_wait_counter)
                   THEN /\ mon' = [mon EXCEPT ![h] = MonStop(h, "wait_timeout")]
                        /\ handle' = [handle EXCEPT ![h].threads_running = FALSE]
                   ELSE /\ mon' = [mon EXCEPT ![h].pc = "tick"]
                        /\ handle' = handle
    /\ UNCHANGED <<named, nregions, hbt, call>>

\* shm_open, mmap, the magic and the heartbeat comparison; then either the
\* adoption of the new mapping or the checks of the two bounds
MonAttach(h) ==
    /\ Running(h)
    /\ mon[h].pc = "attach"
    /\ LET opened == named # 0
           valid == opened /\ region[named].header.magic = ESHM_MAGIC
           new_master_heartbeat == region[named].header.master_heartbeat
       IN  IF valid /\ new_master_heartbeat # handle[h].last_remote_heartbeat
           THEN /\ handle[h].nmaps < MaxMaps
                /\ maps' = [maps EXCEPT ![h] = Mmap(h, named)]
                /\ region' = [region EXCEPT ![named].header.slave_pid = h,
                                            ![named].header.slave_alive = 1]
                /\ handle' = [handle EXCEPT
                       ![h].shm_fd = named,
                       ![h].shm_data = handle[h].nmaps + 1,
                       ![h].nmaps = handle[h].nmaps + 1,
                       ![h].remote_is_stale = FALSE,
                       ![h].stale_counter = 0,
                       ![h].last_remote_heartbeat = new_master_heartbeat]
                /\ mon' = [mon EXCEPT ![h] =
                       [mon[h] EXCEPT !.pc = "tick", !.in_reconnect_mode = FALSE,
                                      !.reconnect_wait_counter = 0,
                                      !.reconnect_attempt_counter = 0,
                                      !.reconnect_attempts = 0]]
                /\ hist' = [hist EXCEPT !.quiet[h] = 0]
           ELSE /\ UNCHANGED <<maps, region, hist>>
                /\ IF AttemptsExhausted(h, mon[h].reconnect_attempts)
                   THEN /\ mon' = [mon EXCEPT ![h] = MonStop(h, "max_attempts")]
                        /\ handle' = [handle EXCEPT ![h].threads_running = FALSE]
                   ELSE IF WaitExpired(h, mon[h].reconnect_wait_counter)
                   THEN /\ mon' = [mon EXCEPT ![h] = MonStop(h, "wait_timeout")]
                        /\ handle' = [handle EXCEPT ![h].threads_running = FALSE]
                   ELSE /\ mon' = [mon EXCEPT ![h].pc = "tick"]
                        /\ handle' = handle
    /\ UNCHANGED <<named, nregions, hbt, call>>

\* a tick of normal monitoring in which the disconnect policy is applied
\* whatever the role of the handle
MonCheck_anyrole(h) ==
    /\ Running(h)
    /\ mon[h].pc = "tick"
    /\ handle[h].threads_running
    /\ ~(handle[h].actual_role = ESHM_ROLE_SLAVE /\ mon[h].in_reconnect_mode)
    /\ IF handle[h].shm_data = 0
       THEN UNCHANGED <<handle, mon, hist>>
       ELSE \E r \in Targets(h, handle[h].shm_data) :
          LET current_remote_heartbeat ==
                  IF handle[h].actual_role = ESHM_ROLE_MASTER
                  THEN region[r].header.slave_heartbeat
                  ELSE region[r].header.master_heartbeat
              stale_threshold == region[r].header.stale_threshold
              stale_counter == Saturate(handle[h].stale_counter + check_interval_ms)
              newly_stale == IsStale(stale_counter, stale_threshold)
                             /\ ~handle[h].remote_is_stale
              immediately == handle[h].config.disconnect_behavior
                                 = ESHM_DISCONNECT_IMMEDIATELY
          IN  /\ hist' = LET hs == QuietTick(h, NoteAccess(h, handle[h].shm_data))
                         IN  IF current_remote_heartbeat = handle[h].last_remote_heartbeat
                                /\ newly_stale
                             THEN DeclaredStale(h, r, hs)
                             ELSE hs
              /\ IF current_remote_heartbeat # handle[h].last_remote_heartbeat
                 THEN /\ handle' = [handle EXCEPT
                             ![h].stale_counter = 0,
                             ![h].remote_is_stale = FALSE,
                             ![h].last_remote_heartbeat = current_remote_heartbeat]
                      /\ mon' = mon
                 ELSE /\ handle' = [handle EXCEPT
                             ![h].stale_counter = stale_counter,
                             ![h].remote_is_stale = @ \/ newly_stale,
                             ![h].threads_running =
                                 IF newly_stale /\ immediately THEN FALSE ELSE @]
                      /\ mon' = IF newly_stale
                                THEN IF immediately
                                     THEN [mon EXCEPT ![h] = MonStop(h, "immediately")]
                                     ELSE [mon EXCEPT ![h].in_reconnect_mode = TRUE,
                                               ![h].reconnect_wait_counter = 0,
                                               ![h].reconnect_attempt_counter =
                                                   handle[h].config.reconnect_retry_interval_ms]
                                ELSE mon
    /\ UNCHANGED <<named, nregions, region, maps, hbt, call>>

\* a tick of normal monitoring: snapshot the pointer, read the remote
\* heartbeat and the threshold, count the time without a change
MonCheck(h) ==
    /\ Running(h)
    /\ mon[h].pc = "tick"
    /\ handle[h].threads_running
    /\ ~(handle[h].actual_role = ESHM_ROLE_SLAVE /\ mon[h].in_reconnect_mode)
    /\ IF handle[h].shm_data = 0
       THEN UNCHANGED <<handle, mon, hist>>
       ELSE \E r \in Targets(h, handle[h].shm_data) :
          LET current_remote_heartbeat ==
                  IF handle[h].actual_role = ESHM_ROLE_MASTER
                  THEN region[r].header.slave_heartbeat
                  ELSE region[r].header.master_heartbeat
              stale_threshold == region[r].header.stale_threshold
              stale_counter == Saturate(handle[h].stale_counter + check_interval_ms)
              newly_stale == IsStale(stale_counter, stale_threshold)
                             /\ ~handle[h].remote_is_stale
              slave == handle[h].actual_role = ESHM_ROLE_SLAVE
              immediately == handle[h].config.disconnect_behavior
                                 = ESHM_DISCONNECT_IMMEDIATELY
          IN  /\ hist' = LET hs == QuietTick(h, NoteAccess(h, handle[h].shm_data))
                         IN  IF current_remote_heartbeat = handle[h].last_remote_heartbeat
                                /\ newly_stale
                             THEN DeclaredStale(h, r, hs)
                             ELSE hs
              /\ IF current_remote_heartbeat # handle[h].last_remote_heartbeat
                 THEN /\ handle' = [handle EXCEPT
                             ![h].stale_counter = 0,
                             ![h].remote_is_stale = FALSE,
                             ![h].last_remote_heartbeat = current_remote_heartbeat]
                      /\ mon' = mon
                 ELSE /\ handle' = [handle EXCEPT
                             ![h].stale_counter = stale_counter,
                             ![h].remote_is_stale = @ \/ newly_stale,
                             ![h].threads_running =
                                 IF newly_stale /\ slave /\ immediately THEN FALSE ELSE @]
                      /\ mon' = IF newly_stale /\ slave
                                THEN IF immediately
                                     THEN [mon EXCEPT ![h] = MonStop(h, "immediately")]
                                     ELSE [mon EXCEPT ![h].in_reconnect_mode = TRUE,
                                               ![h].reconnect_wait_counter = 0,
                                               ![h].reconnect_attempt_counter =
                                                   handle[h].config.reconnect_retry_interval_ms]
                                ELSE mon
    /\ UNCHANGED <<named, nregions, region, maps, hbt, call>>

monitor_thread_func(h) ==
    \/ MonStart(h)
    \/ MonExit(h)
    \/ MonReattachTick(h)
    \/ MonUnmap(h)
    \/ MonAttach(h)
    \/ MonCheck(h)

(***************************************************************************)
(* eshm_get_stats and eshm_check_remote_alive.  eshm_get_stats loads       *)
(* handle->shm_data again for every field it copies; the model takes the   *)
(* header fields as one step and the channel counters as another, and does *)
(* not keep the values copied.                                             *)
(***************************************************************************)
\* memset(stats, 0, ...); if (!handle->shm_data) return NOT_INITIALIZED
StatsEnter(h) ==
    /\ CallFree(h)
    /\ call' = [call EXCEPT ![h] =
           IF handle[h].shm_data = 0
           THEN [IdleCall EXCEPT !.op = "stats", !.pc = "ret",
                                 !.ret = ESHM_ERROR_NOT_INITIALIZED,
                                 !.entered = Entered(h)]
           ELSE [IdleCall EXCEPT !.op = "stats", !.pc = "g_header",
                                 !.entered = Entered(h)]]
    /\ UNCHANGED <<named, nregions, region, handle, maps, hbt, mon, hist>>

\* handle->shm_data->header.master_heartbeat ... header.stale_threshold
StatsHeader(h) ==
    /\ Running(h)
    /\ call[h].pc = "g_header"
    /\ Targets(h, handle[h].shm_data) # {}
    /\ call' = [call EXCEPT ![h].pc = "g_channels"]
    /\ hist' = NoteAccess(h, handle[h].shm_data)
    /\ UNCHANGED <<named, nregions, region, handle, maps, hbt, mon>>

\* handle->shm_data->master_to_slave.write_count ... ; return ESHM_SUCCESS
StatsChannels(h) ==
    /\ Running(h)
    /\ call[h].pc = "g_channels"
    /\ Targets(h, handle[h].shm_data) # {}
    /\ call' = [call EXCEPT ![h] = Return(h, ESHM_SUCCESS)]
    /\ hist' = NoteAccess(h, handle[h].shm_data)
    /\ UNCHANGED <<named, nregions, region, handle, maps, hbt, mon>>

eshm_get_stats(h) == StatsEnter(h) \/ StatsHeader(h) \/ StatsChannels(h)

\* *is_alive = handle->shm_data ? !handle->remote_is_stale : false
eshm_check_remote_alive(h) ==
    /\ CallFree(h)
    /\ call' = [call EXCEPT ![h] =
           [IdleCall EXCEPT !.op = "alive", !.pc = "ret", !.ret = ESHM_SUCCESS,
                            !.entered = Entered(h),
                            !.is_alive = handle[h].shm_data # 0
                                         /\ ~handle[h].remote_is_stale]]
    /\ UNCHANGED <<named, nregions, region, handle, maps, hbt, mon, hist>>

\* the role as the caller asked for it, not as it was resolved
eshm_get_role_requested(h) ==
    /\ CallFree(h)
    /\ call' = [call EXCEPT ![h] =
           [IdleCall EXCEPT !.op = "role", !.pc = "ret", !.ret = ESHM_SUCCESS,
                            !.role = handle[h].config.role]]
    /\ UNCHANGED <<named, nregions, region, handle, maps, hbt, mon, hist>>

\* *role = handle->actual_role
eshm_get_role(h) ==
    /\ CallFree(h)
    /\ call' = [call EXCEPT ![h] =
           [IdleCall EXCEPT !.op = "role", !.pc = "ret", !.ret = ESHM_SUCCESS,
                            !.role = handle[h].actual_role]]
    /\ UNCHANGED <<named, nregions, region, handle, maps, hbt, mon, hist>>

(***************************************************************************)
(* eshm_destroy: stop and join the threads if the running flag is set,     *)
(* clear the own alive flag, unmap, unlink the name if this handle created *)
(* the region, free the handle.                                            *)
(***************************************************************************)
Terminated(h) == hbt[h].pc \in {"none", "done"} /\ mon[h].pc \in {"none", "done"}

\* if (handle->threads_running) { handle->threads_running = false; join ... }
DestroyEnter(h) ==
    /\ CallFree(h)
    /\ call' = [call EXCEPT ![h] =
           [IdleCall EXCEPT !.op = "destroy", !.entered = Entered(h),
                            !.pc = IF handle[h].threads_running THEN "d_join"
                                   ELSE "d_unmap"]]
    /\ handle' = [handle EXCEPT ![h].threads_running = FALSE]
    /\ UNCHANGED <<named, nregions, region, maps, hbt, mon, hist>>

\* pthread_join of the heartbeat thread and of the monitor thread
DestroyJoin(h) ==
    /\ Running(h)
    /\ call[h].pc = "d_join"
    /\ Terminated(h)
    /\ call' = [call EXCEPT ![h].pc = "d_unmap"]
    /\ UNCHANGED <<named, nregions, region, handle, maps, hbt, mon, hist>>

\* the alive flag, munmap, close, shm_unlink, free
DestroyUnmap(h) ==
    /\ Running(h)
    /\ call[h].pc = "d_unmap"
    /\ LET p == handle[h].shm_data
       IN  /\ IF p = 0 THEN region' = region
              ELSE \E r \in Targets(h, p) :
                     region' = IF handle[h].actual_role = ESHM_ROLE_MASTER
                               THEN [region EXCEPT ![r].header.master_alive = 0]
                               ELSE [region EXCEPT ![r].header.slave_alive = 0]
           /\ hist' = IF p = 0 THEN hist ELSE NoteAccess(h, p)
    /\ maps' = [maps EXCEPT ![h] = [q \in MapIds |-> [maps[h][q] EXCEPT !.live = FALSE]]]
    /\ named' = IF handle[h].is_creator /\ handle[h].config.auto_cleanup THEN 0 ELSE named
    /\ handle' = [handle EXCEPT ![h].proc = "destroyed"]
    /\ call' = [call EXCEPT ![h] = Return(h, ESHM_SUCCESS)]
    /\ UNCHANGED <<nregions, hbt, mon>>

eshm_destroy(h) == DestroyEnter(h) \/ DestroyJoin(h) \/ DestroyUnmap(h)

\* eshm_destroy called again with the pointer it has freed.  The pointer is
\* not NULL, so the parameter check passes and the function runs on freed
\* memory: the process dies at the store through the unmapped shm_data or at
\* the second free; or, when the freed handle still reads as it was left and
\* its shm_data was NULL, the function runs through once more.
DestroyAgain(h) ==
    /\ handle[h].proc = "destroyed"
    /\ call[h].pc = "ret"
    /\ \E dies \in (IF handle[h].shm_data = 0 THEN BOOLEAN ELSE {TRUE}) :
          /\ handle' = [handle EXCEPT ![h].proc = IF dies THEN "exited" ELSE @]
          /\ call' = [call EXCEPT ![h] =
                 [IdleCall EXCEPT !.op = "destroy", !.entered = Entered(h),
                                  !.pc = IF dies THEN "d_unmap" ELSE "ret",
                                  !.ret = ESHM_SUCCESS]]
          /\ named' = IF ~dies /\ handle[h].is_creator /\ handle[h].config.auto_cleanup
                      THEN 0 ELSE named
    /\ hist' = [hist EXCEPT !.fault[h] = "freed"]
    /\ UNCHANGED <<nregions, region, maps, hbt, mon>>

\* a thread that is still running touches the freed handle or the unmapped
\* region: the process may die of it
DanglingThread(h) ==
    /\ handle[h].proc = "destroyed"
    /\ ~Terminated(h)
    /\ handle' = [handle EXCEPT ![h].proc = "exited"]
    /\ hist' = [hist EXCEPT !.fault[h] = "freed"]
    /\ UNCHANGED <<named, nregions, region, maps, hbt, mon, call>>

(***************************************************************************)
(* The channel under one writer at a time and one reader, without          *)
(* background threads: M1 writes and may exit abruptly at any step, M2     *)
(* starts once M1 is gone, S reads.                                        *)
(***************************************************************************)
ChannelConfigs ==
    [h \in Handles |->
        Config(IF h \in Masters THEN ESHM_ROLE_MASTER ELSE ESHM_ROLE_SLAVE,
               ESHM_DISCONNECT_ON_TIMEOUT, 100, 5000, 100, 50, FALSE)]

ChannelInit == Start(ChannelConfigs)

StartSecondMaster ==
    /\ handle["M1"].proc = "exited"
    /\ eshm_init("M2")

ChannelNext ==
    \/ \E h \in {"M1", "S"} : eshm_init(h)
    \/ StartSecondMaster
    \/ Kill("M1")
    \/ \E h \in Masters : WriteEnter(h)
    \/ \E h \in Masters : WriteBegin(h)
    \/ \E h \in Masters : WriteCopy(h)
    \/ \E h \in Masters : WriteSize(h)
    \/ \E h \in Masters : WriteEnd(h)
    \/ \E h \in Masters : WriteCount(h)
    \/ eshm_read("S")
    \/ ReadBase("S")
    \/ ReadPoll("S")
    \/ ReadCount("S")
    \/ ReadSeq("S")
    \/ ReadCheck("S")
    \/ ReadSize("S")
    \/ ReadCopy("S")
    \/ ReadRetry("S")
    \/ ReadDone("S")

SpecChannel == ChannelInit /\ [][ChannelNext]_vars

(***************************************************************************)
(* The SLAVE's monitor against a MASTER whose heartbeat never advances (it  *)
(* runs without threads and may exit abruptly) and that is not restarted,  *)
(* for every combination of the reconnect settings of the SLAVE.  The      *)
(* SLAVE runs its heartbeat and monitor threads; the threshold is one tick.*)
(***************************************************************************)
ReconnectBehaviors == {ESHM_DISCONNECT_ON_TIMEOUT, ESHM_DISCONNECT_NEVER}
ReconnectAttempts == {0, 1, 2}
ReconnectIntervals == {0, 10, 20}
ReconnectWaits == {0, 10, 20, 30}

ReconnectConfigs(behavior, wait, interval, attempts) ==
    [h \in Handles |->
        IF h \in Masters
        THEN Config(ESHM_ROLE_MASTER, ESHM_DISCONNECT_ON_TIMEOUT, 10, 5000, 100, 50, FALSE)
        ELSE Config(ESHM_ROLE_SLAVE, behavior, 10, wait, interval, attempts, TRUE)]

ReconnectInit ==
    \E behavior \in ReconnectBehaviors, wait \in ReconnectWaits,
       interval \in ReconnectIntervals, attempts \in ReconnectAttempts :
        Start(ReconnectConfigs(behavior, wait, interval, attempts))

\* the SLAVE attaches to a region that exists
AttachSlave ==
    /\ named # 0
    /\ eshm_init("S")

ReconnectNext ==
    \/ eshm_init("M1")
    \/ AttachSlave
    \/ Kill("M1")
    \/ Segv("S")
    \/ HbLoop("S")
    \/ HbInc("S")
    \/ MonStart("S")
    \/ MonCheck("S")
    \/ MonReattachTick("S")
    \/ MonUnmap("S")
    \/ MonAttach("S")

SpecReconnect == ReconnectInit /\ [][ReconnectNext]_vars

(***************************************************************************)
(* A SLAVE with the policy IMMEDIATELY reading while its MASTER, which     *)
(* runs its threads, may exit abruptly.                                    *)
(***************************************************************************)
ImmediateConfigs ==
    [h \in Handles |->
        IF h \in Masters
        THEN Config(ESHM_ROLE_MASTER, ESHM_DISCONNECT_ON_TIMEOUT, 10, 5000, 100, 50, TRUE)
        ELSE Config(ESHM_ROLE_SLAVE, ESHM_DISCONNECT_IMMEDIATELY, 10, 5000, 100, 50, TRUE)]

ImmediateInit == Start(ImmediateConfigs)

ImmediateNext ==
    \/ eshm_init("M1")
    \/ AttachSlave
    \/ Kill("M1")
    \/ \E h \in {"M1", "S"} : HbLoop(h)
    \/ \E h \in {"M1", "S"} : HbInc(h)
    \/ \E h \in {"M1", "S"} : MonStart(h)
    \/ \E h \in {"M1", "S"} : MonCheck(h)
    \/ ReadEnter("S")
    \/ ReadBase("S")
    \/ ReadPoll("S")
    \/ ReadCount("S")

SpecImmediate == ImmediateInit /\ [][ImmediateNext]_vars

(***************************************************************************)
(* Reattach: a SLAVE with unbounded retries reads while its MASTER, whose  *)
(* heartbeat does not advance, writes once and may exit abruptly; a second *)
(* MASTER with threads then starts on the same name.  A                    *)
(* MASTER's monitor writes only last_remote_heartbeat, stale_counter and   *)
(* remote_is_stale of its own handle, which no step of a MASTER here       *)
(* reads, so its ticks are left out.                                        *)
(***************************************************************************)
ReattachConfigs ==
    [h \in Handles |->
        IF h = "M1"
        THEN Config(ESHM_ROLE_MASTER, ESHM_DISCONNECT_ON_TIMEOUT, 10, 5000, 100, 50, FALSE)
        ELSE IF h = "M2"
        THEN Config(ESHM_ROLE_MASTER, ESHM_DISCONNECT_ON_TIMEOUT, 10, 5000, 100, 50, TRUE)
        ELSE Config(ESHM_ROLE_SLAVE, ESHM_DISCONNECT_ON_TIMEOUT, 10, 0, 0, 0, TRUE)]

ReattachInit == Start(ReattachConfigs)

\* the one write of the first MASTER
FirstWrite(h) ==
    /\ hist.wlog = <<>>
    /\ WriteCall(h, MaxDataSize)

ReattachNext ==
    \/ eshm_init("M1")
    \/ AttachSlave
    \/ Kill("M1")
    \/ StartSecondMaster
    \/ Segv("S")
    \/ \E h \in {"M2", "S"} : HbLoop(h)
    \/ \E h \in {"M2", "S"} : HbInc(h)
    \/ MonStart("S")
    \/ MonCheck("S")
    \/ MonReattachTick("S")
    \/ MonUnmap("S")
    \/ MonAttach("S")
    \/ FirstWrite("M1")
    \/ WriteBegin("M1")
    \/ WriteCopy("M1")
    \/ WriteSize("M1")
    \/ WriteEnd("M1")
    \/ WriteCount("M1")
    \/ eshm_read("S")
    \/ ReadNullExit("S")
    \/ ReadBase("S")
    \/ ReadPoll("S")
    \/ ReadCount("S")
    \/ ReadSeq("S")
    \/ ReadCheck("S")
    \/ ReadSize("S")
    \/ ReadCopy("S")
    \/ ReadRetry("S")
    \/ ReadDone("S")

SpecReattach == ReattachInit /\ [][ReattachNext]_vars

(***************************************************************************)
(* The attempts of a SLAVE's monitor, with unbounded retries, after its    *)
(* MASTER was destroyed (the name is unlinked) or exited abruptly, while a *)
(* second MASTER with threads creates or takes over the region step by     *)
(* step: an attempt may find no object, an object that is not yet          *)
(* initialized, a region whose heartbeat is as last seen, or a new one.    *)
(***************************************************************************)
AdoptNext ==
    \/ eshm_init("M1")
    \/ AttachSlave
    \/ Kill("M1")
    \/ DestroyEnter("M1")
    \/ DestroyUnmap("M1")
    \/ eshm_init_steps("M2")
    \/ heartbeat_thread_func("M2")
    \/ MonStart("S")
    \/ MonCheck("S")
    \/ MonReattachTick("S")
    \/ MonUnmap("S")
    \/ MonAttach("S")

SpecAdopt == ReattachInit /\ [][AdoptNext]_vars

(***************************************************************************)
(* The caller of a SLAVE writing, asking for statistics and for the        *)
(* liveness of the remote while the monitor, with unbounded retries,       *)
(* detaches and retries; the MASTER's heartbeat does not advance.          *)
(***************************************************************************)
StatsNext ==
    \/ eshm_init("M1")
    \/ AttachSlave
    \/ Segv("S")
    \/ heartbeat_thread_func("S")
    \/ MonStart("S")
    \/ MonCheck("S")
    \/ MonReattachTick("S")
    \/ MonUnmap("S")
    \/ MonAttach("S")
    \/ eshm_write("S")
    \/ eshm_get_stats("S")
    \/ eshm_check_remote_alive("S")

SpecStats == ReattachInit /\ [][StatsNext]_vars

(***************************************************************************)
(* The caller of a SLAVE destroying the handle at any moment, for the      *)
(* policy IMMEDIATELY and for a reattach loop bounded by one attempt or by *)
(* the wait; the MASTER's heartbeat does not advance.                      *)
(***************************************************************************)
DestroyInit ==
    \/ Start(ReconnectConfigs(ESHM_DISCONNECT_IMMEDIATELY, 0, 0, 0))
    \/ Start(ReconnectConfigs(ESHM_DISCONNECT_ON_TIMEOUT, 0, 0, 1))
    \/ Start(ReconnectConfigs(ESHM_DISCONNECT_ON_TIMEOUT, 10, 20, 0))

DestroyNext ==
    \/ eshm_init("M1")
    \/ AttachSlave
    \/ Segv("S")
    \/ heartbeat_thread_func("S")
    \/ monitor_thread_func("S")
    \/ eshm_destroy("S")
    \/ DanglingThread("S")

SpecDestroy == DestroyInit /\ [][DestroyNext]_vars

(***************************************************************************)
(* The caller of a SLAVE writing and reading while the monitor detaches,   *)
(* retries and gives up, for the same settings: the policy IMMEDIATELY, a  *)
(* reattach loop bounded by one attempt, and one bounded by the wait.      *)
(***************************************************************************)
GiveUpNext ==
    \/ eshm_init("M1")
    \/ AttachSlave
    \/ Segv("S")
    \/ heartbeat_thread_func("S")
    \/ MonStart("S")
    \/ MonCheck("S")
    \/ MonReattachTick("S")
    \/ MonUnmap("S")
    \/ MonAttach("S")
    \/ WriteCall("S", 0)
    \/ NullExit("S")
    \/ WriteBegin("S")
    \/ WriteSize("S")
    \/ WriteEnd("S")
    \/ WriteCount("S")
    \/ eshm_read("S")
    \/ ReadNullExit("S")
    \/ ReadBase("S")
    \/ ReadPoll("S")
    \/ ReadCount("S")

SpecGiveUp == DestroyInit /\ [][GiveUpNext]_vars

(***************************************************************************)
(* Staleness detection: a MASTER with threads, whose heartbeat stops at    *)
(* the cap or at its abrupt exit, and a SLAVE with threads whose caller    *)
(* asks whether the remote is alive; for each threshold the MASTER         *)
(* publishes and for the policies IMMEDIATELY and ON_TIMEOUT (unbounded    *)
(* retries).                                                               *)
(***************************************************************************)
StaleConfigs(behavior, stale) ==
    [h \in Handles |->
        IF h \in Masters
        THEN Config(ESHM_ROLE_MASTER, ESHM_DISCONNECT_ON_TIMEOUT, stale, 5000, 100, 50, TRUE)
        ELSE Config(ESHM_ROLE_SLAVE, behavior, stale, 0, 0, 0, TRUE)]

StaleInit ==
    \E behavior \in {ESHM_DISCONNECT_IMMEDIATELY, ESHM_DISCONNECT_ON_TIMEOUT},
       stale \in {0, 10, 15} :
        Start(StaleConfigs(behavior, stale))

StaleNext ==
    \/ eshm_init("M1")
    \/ AttachSlave
    \/ Kill("M1")
    \/ Segv("S")
    \/ \E h \in {"M1", "S"} : heartbeat_thread_func(h)
    \/ \E h \in {"M1", "S"} : MonStart(h)
    \/ \E h \in {"M1", "S"} : MonCheck(h)
    \/ MonReattachTick("S")
    \/ MonUnmap("S")
    \/ MonAttach("S")
    \/ eshm_check_remote_alive("S")

SpecStale == StaleInit /\ [][StaleNext]_vars

(***************************************************************************)
(* Staleness detection when the MASTER, which creates the region, and the  *)
(* SLAVE are configured with thresholds of their own.                      *)
(***************************************************************************)
SpecThreshold ==
    /\ \E master_stale \in {10, 20, 30}, slave_stale \in {10, 20, 30} :
          Start([h \in Handles |->
                    [StaleConfigs(ESHM_DISCONNECT_ON_TIMEOUT, master_stale)[h]
                        EXCEPT !.stale_threshold_ms =
                                   IF h \in Masters THEN master_stale
                                   ELSE slave_stale]])
    /\ [][StaleNext]_vars

(***************************************************************************)
(* The monitor of a MASTER: a MASTER with threads under each disconnect    *)
(* policy and each threshold, whose caller asks whether the remote is      *)
(* alive and destroys the handle, and a SLAVE whose heartbeat thread runs  *)
(* at any pace until the SLAVE exits.                                      *)
(***************************************************************************)
MasterMonitorConfigs(behavior, stale) ==
    [h \in Handles |->
        IF h \in Masters
        THEN Config(ESHM_ROLE_MASTER, behavior, stale, 10, 20, 1, TRUE)
        ELSE Config(ESHM_ROLE_SLAVE, ESHM_DISCONNECT_ON_TIMEOUT, stale, 0, 0, 0, TRUE)]

MasterMonitorNext ==
    \/ eshm_init("M1")
    \/ AttachSlave
    \/ Kill("S")
    \/ \E h \in {"M1", "S"} : heartbeat_thread_func(h)
    \/ MonStart("M1")
    \/ MonCheck("M1")
    \/ MonExit("M1")
    \/ eshm_check_remote_alive("M1")
    \/ eshm_destroy("M1")

SpecMasterMonitor ==
    /\ \E behavior \in {ESHM_DISCONNECT_IMMEDIATELY, ESHM_DISCONNECT_ON_TIMEOUT,
                        ESHM_DISCONNECT_NEVER},
          stale \in {0, 10, 15} :
           Start(MasterMonitorConfigs(behavior, stale))
    /\ [][MasterMonitorNext]_vars

(***************************************************************************)
(* Roles on one name: two processes that ask for MASTER and one that asks  *)
(* for SLAVE call eshm_init in any order and at any time, write, exit      *)
(* abruptly or destroy their handles; no background threads.               *)
(***************************************************************************)
RolesNext ==
    \/ \E h \in Handles : eshm_init(h)
    \/ \E h \in Handles : Kill(h)
    \/ \E h \in Handles : DestroyEnter(h)
    \/ \E h \in Handles : DestroyUnmap(h)
    \/ \E h \in Masters : WriteCall(h, 1)
    \/ \E h \in Masters : WriteBegin(h)
    \/ \E h \in Masters : WriteCopy(h)
    \/ \E h \in Masters : WriteSize(h)
    \/ \E h \in Masters : WriteEnd(h)
    \/ \E h \in Masters : WriteCount(h)

SpecRoles == ChannelInit /\ [][RolesNext]_vars

(***************************************************************************)
(* The life of the region under a name: inits in any order, abrupt exits,  *)
(* destroys, one write of the first MASTER, and an object under the name   *)
(* that no eshm_init completed; no background threads.                     *)
(***************************************************************************)
\* an object found under the name that no eshm_init of this build completed:
\* all zero as a creator killed between ftruncate and init_shm_data leaves
\* it, or written by a build of the library with the previous protocol
\* version (the magic is ESHM's, the version is not this build's), with any
\* value in the SLAVE alive flag
StrayObject ==
    /\ named = 0
    /\ nregions < MaxRegions
    /\ \A h \in Handles : handle[h].proc = "none"
    /\ \E alive \in {0, 1} : \E magic \in {0, ESHM_MAGIC} :
          region' = [region EXCEPT ![nregions + 1] =
                         [ZeroData EXCEPT
                              !.header.magic = magic,
                              !.header.version =
                                  IF magic = 0 THEN 0 ELSE ESHM_VERSION - 1,
                              !.header.slave_alive = alive]]
    /\ named' = nregions + 1
    /\ nregions' = nregions + 1
    /\ UNCHANGED <<handle, maps, hbt, mon, call, hist>>

LifecycleNext ==
    \/ StrayObject
    \/ \E h \in Handles : eshm_init(h)
    \/ \E h \in Handles : Kill(h)
    \/ \E h \in Handles : DestroyEnter(h)
    \/ \E h \in Handles : DestroyUnmap(h)
    \/ \E h \in Handles : DestroyAgain(h)
    \/ FirstWrite("M1")
    \/ WriteBegin("M1")
    \/ WriteCopy("M1")
    \/ WriteSize("M1")
    \/ WriteEnd("M1")
    \/ WriteCount("M1")

SpecLifecycle == ChannelInit /\ [][LifecycleNext]_vars

(***************************************************************************)
(* The same life of the region when the processes are given a name that is *)
(* a NULL pointer, the empty string, or a string of characters.            *)
(***************************************************************************)
NameConfigs(shm_name) ==
    [h \in Handles |-> [ChannelConfigs[h] EXCEPT !.shm_name = shm_name]]

SpecNames ==
    /\ \E shm_name \in {NoName, <<"">>, <<"demo">>} : Start(NameConfigs(shm_name))
    /\ [][LifecycleNext]_vars

(***************************************************************************)
(* One MASTER generation and the SLAVEs that come and go under it: the     *)
(* MASTER and the SLAVE run their threads, the SLAVE writes once; the      *)
(* SLAVE may destroy its handle, or die of a fault, and init again, and    *)
(* its monitor reattaches when the MASTER's heartbeat stops.               *)
(***************************************************************************)
MonotoneNext ==
    \/ eshm_init("M1")
    \/ AttachSlave
    \/ Segv("S")
    \/ Restart("S")
    \/ eshm_destroy("S")
    \/ \E h \in {"M1", "S"} : heartbeat_thread_func(h)
    \/ monitor_thread_func("S")
    \/ FirstWrite("S")
    \/ WriteBegin("S")
    \/ WriteCopy("S")
    \/ WriteSize("S")
    \/ WriteEnd("S")
    \/ WriteCount("S")

SpecMonotone ==
    Start(StaleConfigs(ESHM_DISCONNECT_ON_TIMEOUT, 10)) /\ [][MonotoneNext]_vars

(***************************************************************************)
(* Two processes that ask for the role AUTO, and one that asks for SLAVE,  *)
(* call eshm_init at the same time on a name that does not exist, and ask  *)
(* for their role afterwards; no background threads.                       *)
(***************************************************************************)
AutoConfigs ==
    [h \in Handles |->
        Config(IF h \in Masters THEN ESHM_ROLE_AUTO ELSE ESHM_ROLE_SLAVE,
               ESHM_DISCONNECT_ON_TIMEOUT, 100, 5000, 100, 50, FALSE)]

AutoRaceNext ==
    \/ \E h \in Handles : eshm_init_steps(h)
    \/ \E h \in Handles : eshm_get_role(h)

SpecAutoRace == Start(AutoConfigs) /\ [][AutoRaceNext]_vars

\* the same processes calling eshm_init one after the other, exiting or
\* destroying their handle (no threads to join) and starting again
AutoNext ==
    \/ \E h \in Handles : eshm_init(h)
    \/ \E h \in Handles : eshm_get_role(h)
    \/ \E h \in Handles : DestroyEnter(h)
    \/ \E h \in Handles : DestroyUnmap(h)
    \/ \E h \in Handles : Kill(h)
    \/ \E h \in Handles : Restart(h)

SpecAuto == Start(AutoConfigs) /\ [][AutoNext]_vars

(***************************************************************************)
(* A MASTER writing one payload of the full capacity and a SLAVE reading   *)
(* with a buffer of the capacity or one byte less, polling or blocking,    *)
(* any number of times; no background threads.                             *)
(***************************************************************************)
BufferNext ==
    \/ eshm_init("M1")
    \/ AttachSlave
    \/ FirstWrite("M1")
    \/ WriteBegin("M1")
    \/ WriteCopy("M1")
    \/ WriteSize("M1")
    \/ WriteEnd("M1")
    \/ WriteCount("M1")
    \/ ReadEnter("S")
    \/ ReadBase("S")
    \/ ReadPoll("S")
    \/ ReadCount("S")
    \/ ReadSeq("S")
    \/ ReadCheck("S")
    \/ ReadSize("S")
    \/ ReadCopy("S")
    \/ ReadRetry("S")
    \/ ReadDone("S")

SpecBuffer == ChannelInit /\ [][BufferNext]_vars

(***************************************************************************)
(* The heartbeat threads of the MASTERs and of a SLAVE, scheduled fairly,   *)
(* while the SLAVE's monitor detaches and reattaches when the MASTER's     *)
(* heartbeat stops or the MASTER exits, and a second MASTER starts on the  *)
(* name at any time; and the same processes without background threads.    *)
(***************************************************************************)
HeartbeatNext ==
    \/ \E h \in Masters : eshm_init(h)
    \/ AttachSlave
    \/ Kill("M1")
    \/ Segv("S")
    \/ \E h \in Handles : HbLoop(h)
    \/ \E h \in Handles : HbInc(h)
    \/ MonStart("S")
    \/ MonCheck("S")
    \/ MonReattachTick("S")
    \/ MonUnmap("S")
    \/ MonAttach("S")

SpecHeartbeat ==
    /\ Start(StaleConfigs(ESHM_DISCONNECT_ON_TIMEOUT, 10)) \/ ChannelInit
    /\ [][HeartbeatNext]_vars
    /\ \A h \in Handles : WF_vars(heartbeat_thread_func(h))

(***************************************************************************)
(* A SLAVE reading, polling or with a finite timeout, from a MASTER that   *)
(* writes payloads of the full capacity and may exit abruptly at any       *)
(* point of a write.  A call of the SLAVE that has been entered keeps      *)
(* being executed, and the monotonic clock advances, so that a read which  *)
(* keeps reaching its timeout check at some time finds the budget spent;   *)
(* nothing is assumed of the MASTER.                                       *)
(***************************************************************************)
StalledWriterNext ==
    \/ eshm_init("M1")
    \/ AttachSlave
    \/ Kill("M1")
    \/ WriteCall("M1", MaxDataSize)
    \/ WriteBegin("M1")
    \/ WriteCopy("M1")
    \/ WriteSize("M1")
    \/ WriteEnd("M1")
    \/ WriteCount("M1")
    \/ ReadEnter("S")
    \/ ReadBase("S")
    \/ ReadPoll("S")
    \/ ReadCount("S")
    \/ ReadSeq("S")
    \/ ReadCheck("S")
    \/ ReadSize("S")
    \/ ReadCopy("S")
    \/ ReadRetry("S")
    \/ ReadDone("S")

SpecStalledWriter ==
    /\ ChannelInit
    /\ [][StalledWriterNext]_vars
    /\ WF_vars(call["S"].pc # "ret" /\ eshm_read_timeout("S"))
    /\ SF_vars(ReadCount("S") /\ call'["S"].pc = "ret")

(***************************************************************************)
(* A SLAVE reading with a buffer one byte short of the capacity while the  *)
(* MASTER writes payloads of any size.                                     *)
(***************************************************************************)
ShortBufferNext ==
    \/ eshm_init("M1")
    \/ AttachSlave
    \/ WriteEnter("M1")
    \/ WriteBegin("M1")
    \/ WriteCopy("M1")
    \/ WriteSize("M1")
    \/ WriteEnd("M1")
    \/ WriteCount("M1")
    \/ ReadCall("S", MaxDataSize - 1, 1000)
    \/ ReadBase("S")
    \/ ReadPoll("S")
    \/ ReadCount("S")
    \/ ReadSeq("S")
    \/ ReadCheck("S")
    \/ ReadSize("S")
    \/ ReadCopy("S")
    \/ ReadRetry("S")
    \/ ReadDone("S")

SpecShortBuffer == ChannelInit /\ [][ShortBufferNext]_vars

(***************************************************************************)
(* Claims about the channel.                                               *)
(***************************************************************************)
\* the payload of the k-th write started: size bytes, each of them k
Payload(k) == [i \in 1..hist.wlog[k].size |-> k]

ReadReturned(h) == call[h].pc = "ret" /\ call[h].op = "read"

Delivered(h, k) ==
    /\ call[h].bytes_read = hist.wlog[k].size
    /\ call[h].buffer = Payload(k)

\* C1: payload atomicity.  Every read that returns SUCCESS delivers the
\* length and the bytes of exactly one write of the peer, never a mixture of
\* two writes or a partly copied payload, also after abrupt writer exits and
\* MASTER takeovers of the region.
C1_PayloadAtomicity ==
    \A h \in Handles :
        (ReadReturned(h) /\ call[h].ret = ESHM_SUCCESS)
        => \E k \in DOMAIN hist.wlog : hist.wlog[k].h # h /\ Delivered(h, k)

\* process h is (or, having exited, was left) between seqlock_write_begin and
\* seqlock_write_end on channel c of region r
Publishing(h, r, c) ==
    /\ handle[h].proc \in {"live", "exited"}
    /\ call[h].pc \in {"w_copy", "w_size", "w_end"}
    /\ maps[h][call[h].snap].region = r
    /\ WriteChannel(h) = c

\* C2: sequence parity.  In every reachable state, also after a writer was
\* killed inside eshm_write and a new MASTER took the region over, a channel's
\* sequence counter is odd while a running eshm_write is between
\* seqlock_write_begin and seqlock_write_end on it, and even when no
\* eshm_write (running or cut short by the kill) is.
C2_SequenceParity ==
    \A r \in 1..nregions, c \in Channels :
        /\ (\E h \in Handles : Running(h) /\ Publishing(h, r, c))
               => region[r][c].sequence % 2 = 1
        /\ (~\E h \in Handles : Publishing(h, r, c))
               => region[r][c].sequence % 2 = 0

\* C3: round trip.  With a MASTER and an attached SLAVE, once the MASTER's
\* write(x) has returned SUCCESS and no other write was started, the SLAVE's
\* next read with timeout_ms > 0 returns SUCCESS with exactly x when the call
\* was entered after the write completed, and delivers x if it returns
\* SUCCESS when the call was entered before.
C3_RoundTrip ==
    LET k == Len(hist.wlog)
    IN  (/\ ReadReturned("S")
         /\ call["S"].timeout_ms > 0
         /\ call["S"].first
         /\ k > 0
         /\ hist.wlog[k].done
         /\ "S" \in hist.wlog[k].peers
         /\ hist.wlog[k].h \in Masters)
        => /\ call["S"].entered.done = WritesDone
                  => call["S"].ret = ESHM_SUCCESS
           /\ call["S"].ret = ESHM_SUCCESS => Delivered("S", k)

(***************************************************************************)
(* Claims about the bounds of the reattach loop.                           *)
(***************************************************************************)
\* ticks from one attempt to the next: the attempt counter is reset at an
\* attempt and grows by check_interval_ms a tick until it reaches the interval
TicksPerAttempt(interval) ==
    IF interval <= check_interval_ms THEN 1
    ELSE (interval + check_interval_ms - 1) \div check_interval_ms

\* the tick of reattach mode at which the n-th attempt is made
AttemptTick(n, interval) == 1 + (n - 1) * TicksPerAttempt(interval)

GaveUp(h) == mon[h].stopped_by \in {"max_attempts", "wait_timeout"}

\* C8 as stated: with max_reconnect_attempts = N > 0, whatever the wait and
\* the interval, a SLAVE that gives up the reattach loop has made exactly N
\* attempts.
C8_ExactlyN ==
    (handle["S"].config.max_reconnect_attempts > 0 /\ GaveUp("S"))
    => mon["S"].reconnect_attempts = handle["S"].config.max_reconnect_attempts

\* C8: bounded reconnect.  With max_reconnect_attempts = N > 0 the SLAVE makes
\* at most N attempts and does not tick on after a failed N-th one; it gives
\* up by the attempt bound with exactly N attempts made, or by the wait bound
\* with fewer than N and reconnect_wait_ms > 0 elapsed; and it has made exactly
\* N when reconnect_wait_ms is 0 or exceeds the time of the ticks before the
\* N-th attempt.
C8_BoundedReconnect ==
    LET N == handle["S"].config.max_reconnect_attempts
        W == handle["S"].config.reconnect_wait_ms
        I == handle["S"].config.reconnect_retry_interval_ms
        m == mon["S"]
    IN  N > 0 =>
          /\ m.reconnect_attempts <= N
          /\ (m.pc = "tick" /\ m.in_reconnect_mode) => m.reconnect_attempts < N
          /\ m.stopped_by = "max_attempts"
                => m.reconnect_attempts = N /\ ~handle["S"].threads_running
          /\ m.stopped_by = "wait_timeout"
                => /\ m.reconnect_attempts < N
                   /\ W > 0 /\ m.reconnect_wait_counter >= W
                   /\ ~handle["S"].threads_running
          /\ (GaveUp("S") /\ (W = 0 \/ W > check_interval_ms * (AttemptTick(N, I) - 1)))
                => m.reconnect_attempts = N

\* the SLAVE gave up after the second of two attempts spaced two ticks apart,
\* with a wait bound that had not yet elapsed
C8_Witness ==
    /\ handle["S"].config.max_reconnect_attempts = 2
    /\ handle["S"].config.reconnect_retry_interval_ms = 20
    /\ handle["S"].config.reconnect_wait_ms = 30
    /\ mon["S"].stopped_by = "max_attempts"
    /\ mon["S"].reconnect_attempts = 2
    /\ mon["S"].reconnect_wait_counter = 30

\* C9: with the policy NEVER the total-wait bound is unbounded: the SLAVE in
\* reattach mode never clears the running flag because reconnect_wait_ms
\* elapsed, whatever its value.
C9_NeverWaitsForever ==
    handle["S"].config.disconnect_behavior = ESHM_DISCONNECT_NEVER
    => mon["S"].stopped_by # "wait_timeout"

(***************************************************************************)
(* Claims about the policy IMMEDIATELY.                                    *)
(***************************************************************************)
\* C10 as stated, last part: a read issued after the handle is STOPPED
\* returns NOT_INITIALIZED.
C10_StoppedNotInitialized ==
    (ReadReturned("S") /\ call["S"].entered.stopped)
    => call["S"].ret = ESHM_ERROR_NOT_INITIALIZED

\* C10: immediate disconnect.  For a SLAVE with the policy IMMEDIATELY the
\* monitor clears the running flag in the step that declares the MASTER
\* stale and keeps the mapping, and every read entered after that, also once
\* the handle is STOPPED, returns ESHM_ERROR_MASTER_STALE.
C10_ImmediateDisconnect ==
    /\ handle["S"].remote_is_stale
          => /\ ~handle["S"].threads_running
             /\ mon["S"].stopped_by = "immediately"
             /\ handle["S"].shm_data # 0
    /\ (ReadReturned("S") /\ call["S"].entered.stopped)
          => call["S"].ret = ESHM_ERROR_MASTER_STALE

\* a read entered after the monitor stopped has returned MASTER_STALE, after
\* the MASTER's heartbeat had been seen advancing
C10_Witness ==
    /\ ReadReturned("S")
    /\ call["S"].entered.stopped
    /\ call["S"].ret = ESHM_ERROR_MASTER_STALE
    /\ mon["S"].pc = "done"
    /\ handle["S"].last_remote_heartbeat > 0

(***************************************************************************)
(* Claims about the reattach.                                              *)
(***************************************************************************)
\* C4: reattach soundness.  After the SLAVE's monitor has left reattach mode
\* with a new mapping, every read that returns SUCCESS delivers a payload
\* written by the new MASTER, never one written by the MASTER that exited.
C4_ReattachSound ==
    (ReadReturned("S") /\ call["S"].ret = ESHM_SUCCESS /\ call["S"].after_reattach)
    => \E k \in DOMAIN hist.wlog : hist.wlog[k].h = "M2" /\ Delivered("S", k)

\* C5: no use of unmapped memory.  Under every interleaving of the monitor's
\* detach and adoption with the heartbeat thread and the caller's entry
\* points, no thread of the SLAVE reads or writes through a mapping the
\* monitor has unmapped.
C5_NoUseAfterUnmap == hist.fault["S"] # "unmapped"

(***************************************************************************)
(* Claims about the caller's entry points against the monitor.             *)
(***************************************************************************)
\* C6: every reader of the mapping pointer uses one snapshot of it:
\* eshm_get_stats and eshm_check_remote_alive running against the monitor's
\* reattach return not-initialized or not-alive, or complete, and never
\* dereference a NULL pointer.
C6_NoNullDereference == hist.fault["S"] # "null"

\* C7: eshm_destroy has waited for the heartbeat thread and the monitor
\* thread to terminate when it unmaps the region and frees the handle, in
\* every state of the handle, also after the monitor itself cleared the
\* running flag.
C7_DestroyJoinsThreads ==
    \A h \in Handles :
        (call[h].op = "destroy" /\ call[h].pc = "ret") => Terminated(h)

(***************************************************************************)
(* Claims about staleness.                                                 *)
(***************************************************************************)
\* C11: with the policy ON_TIMEOUT or NEVER no read of the SLAVE returns
\* MASTER_STALE: a read returns TIMEOUT, or NO_DATA or SUCCESS while the
\* mapping is present, and a read that found the mapping pointer NULL
\* returns TIMEOUT, never NOT_INITIALIZED.
C11_StaleReadsTimeOut ==
    (/\ handle["S"].config.disconnect_behavior
            \in {ESHM_DISCONNECT_ON_TIMEOUT, ESHM_DISCONNECT_NEVER}
     /\ ReadReturned("S"))
    => call["S"].ret \in {ESHM_SUCCESS, ESHM_ERROR_NO_DATA, ESHM_ERROR_TIMEOUT}

\* the bound of the claim, in monitor ticks
StaleTickBound(stale_threshold) ==
    (stale_threshold + check_interval_ms - 1) \div check_interval_ms + 2

\* a step that lowers the remote-is-stale flag of h
StaleCleared(h) == handle[h].remote_is_stale /\ ~handle'[h].remote_is_stale

\* a step in which eshm_check_remote_alive of h returns
AliveReturns(h) ==
    /\ call'[h] # call[h]
    /\ call'[h].op = "alive"
    /\ call'[h].pc = "ret"

\* the flag comes down only where a tick observes a changed heartbeat or a
\* reattach adopts a new mapping
StaleUntilChange(h) ==
    StaleCleared(h)
    => \/ handle'[h].nmaps > handle[h].nmaps
       \/ handle'[h].last_remote_heartbeat # handle[h].last_remote_heartbeat

\* alive is reported only with the flag down and the mapping present
AliveOnlyIfFresh(h) ==
    (AliveReturns(h) /\ call'[h].is_alive)
    => (~handle[h].remote_is_stale /\ handle[h].shm_data # 0)

\* the monitor of h has set the flag by the end of the tick of the bound
StaleByBound(h) ==
    Watched(h) # 0
    => (hist.quiet[h] >= StaleTickBound(region[Watched(h)].header.stale_threshold)
        => handle[h].remote_is_stale)

\* C12: staleness detection is bounded in monitor ticks.  Once the MASTER's
\* heartbeat has stopped changing, the SLAVE's monitor has set
\* remote_is_stale by the end of its tick number ceil(stale_threshold / 10)
\* + 2; from then on the flag stays up until a tick observes a changed
\* heartbeat or a reattach adopts a new mapping, and eshm_check_remote_alive
\* reports not-alive whenever the flag is up or the mapping pointer is NULL.
C12_BoundedStaleness ==
    /\ []StaleByBound("S")
    /\ [][StaleUntilChange("S") /\ AliveOnlyIfFresh("S")]_vars

\* with a threshold of one tick the MASTER was declared stale at the second
\* tick after its heartbeat stopped at 1, the first tick having seen the last
\* change, and eshm_check_remote_alive has reported not-alive
C12_Witness ==
    /\ Watched("S") # 0
    /\ region[Watched("S")].header.stale_threshold = 10
    /\ handle["S"].remote_is_stale
    /\ handle["S"].last_remote_heartbeat = 1
    /\ hist.quiet["S"] = 2
    /\ call["S"].op = "alive" /\ call["S"].pc = "ret" /\ ~call["S"].is_alive

(***************************************************************************)
(* Claims about roles and the life of the region.                          *)
(***************************************************************************)
\* the live handles that act in the given role on region r
Acting(role, r) ==
    {h \in Handles : Running(h) /\ handle[h].actual_role = role /\ Watched(h) = r}

\* the processes inside eshm_write on channel c of region r
WritingOn(r, c) ==
    {h \in Handles : /\ Running(h)
                     /\ call[h].pc \in WritePcs
                     /\ Watched(h) = r
                     /\ WriteChannel(h) = c}

\* C13: at any instant at most one live handle acts as MASTER and at most
\* one as SLAVE for a region, and each channel has at most one process
\* executing eshm_write on it, after any sequence of MASTER inits (create or
\* takeover) and SLAVE inits on the name, also when a MASTER inits while an
\* earlier MASTER is still running.
C13_OneMasterOneSlave ==
    \A r \in 1..nregions :
        /\ Cardinality(Acting(ESHM_ROLE_MASTER, r)) <= 1
        /\ Cardinality(Acting(ESHM_ROLE_SLAVE, r)) <= 1
        /\ \A c \in Channels : Cardinality(WritingOn(r, c)) <= 1

\* a step in which eshm_init of h runs, with the requested role MASTER, with
\* the name referring to an object
MasterInitOnExisting(h) ==
    /\ handle[h].proc = "none"
    /\ handle'[h].proc # "none"
    /\ handle[h].config.role = ESHM_ROLE_MASTER
    /\ named # 0

\* the header after the MASTER fields were set on the header hd
MasterStarted(hd, h) ==
    [hd EXCEPT !.master_generation = hd.master_generation + 1,
               !.master_pid = h,
               !.master_alive = 1,
               !.master_heartbeat = 0]

\* C14: takeover.  When a MASTER inits on an existing region with a valid
\* header whose SLAVE alive flag is set, the name keeps referring to the same
\* object and no mapping of another process changes; the init succeeds with
\* the creator flag false, bumps master_generation by exactly one, sets
\* master_pid and master_alive, resets master_heartbeat to 0 and leaves both
\* channels, the SLAVE's header fields and the threshold unchanged.
C14_Takeover ==
    [][\A h \in Handles :
          (/\ MasterInitOnExisting(h)
           /\ region[named].header.slave_alive # 0
           /\ region[named].header.magic = ESHM_MAGIC)
          => /\ named' = named
             /\ nregions' = nregions
             /\ \A g \in Handles \ {h} : maps'[g] = maps[g]
             /\ handle'[h].proc = "live"
             /\ handle'[h].actual_role = ESHM_ROLE_MASTER
             /\ ~handle'[h].is_creator
             /\ handle'[h].shm_fd = named
             /\ region' = [region EXCEPT ![named].header =
                                MasterStarted(region[named].header, h)]]_vars

\* the second MASTER has taken over the region the SLAVE is mapped on, which
\* holds a completed write of the first MASTER
C14_Witness ==
    /\ Running("M2") /\ ~handle["M2"].is_creator
    /\ Watched("M2") = named /\ Watched("S") = named
    /\ region[named].header.master_pid = "M2"
    /\ region[named].header.master_generation = 2
    /\ region[named].header.slave_alive = 1
    /\ region[named].master_to_slave.write_count = 1
    /\ region[named].master_to_slave.data_size = MaxDataSize

\* C15: when a MASTER inits on an existing region whose SLAVE alive flag is
\* clear or whose header is invalid (magic mismatch), the name is unlinked
\* and a fresh object is created and initialized (magic, version, zero
\* heartbeats, alive flags and PIDs, the configured threshold, zeroed
\* channels) before the MASTER fields are set; the init succeeds, the handle
\* is the creator, and the old object is left as it was.
C15_Recreate ==
    [][\A h \in Handles :
          (/\ MasterInitOnExisting(h)
           /\ \/ region[named].header.slave_alive = 0
              \/ region[named].header.magic # ESHM_MAGIC)
          => /\ handle'[h].proc = "live"
             /\ handle'[h].actual_role = ESHM_ROLE_MASTER
             /\ handle'[h].is_creator
             /\ nregions' = nregions + 1
             /\ named' = nregions'
             /\ handle'[h].shm_fd = named'
             /\ \A r \in 1..nregions : region'[r] = region[r]
             /\ region'[named'] =
                    [header |->
                        [magic |-> ESHM_MAGIC, version |-> ESHM_VERSION,
                         master_heartbeat |-> 0, slave_heartbeat |-> 0,
                         master_pid |-> h, slave_pid |-> "none",
                         master_alive |-> 1, slave_alive |-> 0,
                         stale_threshold |-> handle[h].config.stale_threshold_ms,
                         master_generation |-> 1],
                     master_to_slave |-> ZeroChannel,
                     slave_to_master |-> ZeroChannel]]_vars

\* a step in which eshm_init of h succeeds with the resolved role MASTER
MasterStarts(h) ==
    /\ handle[h].proc = "none"
    /\ handle'[h].proc = "live"
    /\ handle'[h].actual_role = ESHM_ROLE_MASTER

\* C16: the MASTER generation of a name is strictly increasing over MASTER
\* starts: every successful MASTER init (create, recreate after unlink, or
\* takeover) publishes a master_generation strictly greater than the one
\* published by every earlier MASTER init on the name, that is, greater than
\* the generation in every object the name has referred to.
C16_GenerationIncreases ==
    [][\A h \in Handles :
          MasterStarts(h)
          => \A r \in 1..nregions :
                 region'[named'].header.master_generation
                     > region[r].header.master_generation]_vars

(***************************************************************************)
(* Claims about what a reattach adopts.                                    *)
(***************************************************************************)
\* a step in which the monitor of h adopts a new mapping
Adopts(h) ==
    /\ mon[h].pc = "attach"
    /\ handle'[h].nmaps > handle[h].nmaps

\* C17: a SLAVE leaves reattach mode and adopts a mapping only when the
\* region it adopts carries a MASTER generation different from the one of
\* the region it was attached to when staleness was declared; it never
\* adopts the same MASTER generation again.
C17_AdoptsNewGeneration ==
    [][\A h \in Handles :
          Adopts(h)
          => region'[named].header.master_generation # hist.stale_generation[h]]_vars

(***************************************************************************)
(* Claims about the counters of the region.                                *)
(***************************************************************************)
\* C18: within one MASTER generation, that is in every step in which no
\* MASTER init succeeds, master_heartbeat, slave_heartbeat and the
\* write_count of both channels of every region object do not decrease,
\* also in the steps in which a SLAVE inits, destroys and inits again, or
\* reattaches.
C18_CountersMonotone ==
    [][(~\E h \in Handles : MasterStarts(h))
       => \A r \in 1..nregions :
             /\ region'[r].header.master_heartbeat >= region[r].header.master_heartbeat
             /\ region'[r].header.slave_heartbeat >= region[r].header.slave_heartbeat
             /\ \A c \in Channels :
                    region'[r][c].write_count >= region[r][c].write_count]_vars

(***************************************************************************)
(* Claims about the role AUTO.                                             *)
(***************************************************************************)
InitReturned(h) == handle[h].proc \in {"live", "failed"}

\* C19: when two processes call init with the role AUTO on the same
\* non-existent name at the same time, then under every interleaving of their
\* existence checks, creates or opens and header initializations both inits
\* succeed, exactly one handle resolves to MASTER and is the creator, and the
\* other resolves to SLAVE on the same region.
C19_AutoRace ==
    (InitReturned("M1") /\ InitReturned("M2"))
    => /\ Running("M1") /\ Running("M2")
       /\ \E m \in Masters :
             LET o == CHOOSE g \in Masters : g # m
             IN  /\ handle[m].actual_role = ESHM_ROLE_MASTER
                 /\ handle[m].is_creator
                 /\ handle[o].actual_role = ESHM_ROLE_SLAVE
                 /\ ~handle[o].is_creator
                 /\ Watched(o) = Watched(m)

\* a step that is a whole eshm_init of h with the role AUTO
AutoInit(h) ==
    /\ handle[h].config.role = ESHM_ROLE_AUTO
    /\ handle[h].proc = "none"
    /\ handle'[h].proc \in {"live", "failed"}

\* C20: an init with the role AUTO that no other init runs into resolves to
\* MASTER and creates the region when no object of the name exists, and
\* resolves to SLAVE and attaches to the named region when one exists;
\* get_role returns the resolved role of the handle, which is never AUTO.
C20_AutoResolves ==
    [][\A h \in Handles :
         /\ AutoInit(h) =>
               /\ handle'[h].proc = "live"
               /\ IF named = 0
                  THEN /\ handle'[h].actual_role = ESHM_ROLE_MASTER
                       /\ handle'[h].is_creator
                       /\ nregions' = nregions + 1
                       /\ named' = nregions'
                       /\ region'[named'].header.magic = ESHM_MAGIC
                       /\ region'[named'].header.master_pid = h
                       /\ region'[named'].header.master_alive = 1
                  ELSE /\ handle'[h].actual_role = ESHM_ROLE_SLAVE
                       /\ ~handle'[h].is_creator
                       /\ nregions' = nregions
                       /\ named' = named
                       /\ region'[named].header.slave_pid = h
                       /\ region'[named].header.slave_alive = 1
               /\ Watched(h)' = named'
         /\ (CallFree(h) /\ call'[h].op = "role" /\ handle' = handle) =>
               /\ call'[h].pc = "ret"
               /\ call'[h].ret = ESHM_SUCCESS
               /\ call'[h].role = handle[h].actual_role
               /\ call'[h].role \in {ESHM_ROLE_MASTER, ESHM_ROLE_SLAVE}]_vars

\* an AUTO process that found the region and learnt SLAVE from get_role, next
\* to an AUTO process that created the region and learnt MASTER
C20_Witness ==
    /\ \A h \in Masters : Running(h) /\ call[h].op = "role"
    /\ \E m \in Masters :
          /\ handle[m].is_creator /\ call[m].role = ESHM_ROLE_MASTER
          /\ Watched(m) = named
    /\ \E o \in Masters :
          /\ ~handle[o].is_creator /\ call[o].role = ESHM_ROLE_SLAVE
          /\ Watched(o) = named

(***************************************************************************)
(* Claims about the sizes of writes and reads.                             *)
(***************************************************************************)
WriteReturned(h) == call[h].pc = "ret" /\ call[h].op = "write"

\* a step that enters eshm_write of h with the mapping pointer set
WriteEntered(h) ==
    /\ CallFree(h)
    /\ handle[h].shm_data # 0
    /\ call'[h] # call[h]
    /\ call'[h].op = "write"

\* C21: a write on a mapped handle whose size exceeds the channel capacity
\* returns BUFFER_TOO_SMALL at once and leaves the sequence counter, the
\* length cell, the payload and write_count of every channel as they were; a
\* write of exactly the capacity, or less, is taken and returns SUCCESS.
C21_OversizeRejected ==
    /\ [][\A h \in Handles :
            WriteEntered(h) =>
               IF call'[h].size > MaxDataSize
               THEN /\ call'[h].pc = "ret"
                    /\ call'[h].ret = ESHM_ERROR_BUFFER_TOO_SMALL
                    /\ region' = region
               ELSE call'[h].pc = "w_begin"]_vars
    /\ [](\A h \in Handles :
            WriteReturned(h) =>
               /\ call[h].ret \in {ESHM_SUCCESS, ESHM_ERROR_BUFFER_TOO_SMALL}
               /\ call[h].ret = ESHM_ERROR_BUFFER_TOO_SMALL
                     <=> call[h].size > MaxDataSize)

\* the MASTER's write of one byte more than the capacity was rejected after
\* its write of exactly the capacity had completed, with the SLAVE attached
C21_Witness ==
    /\ Running("S")
    /\ WriteReturned("M1")
    /\ call["M1"].size = MaxDataSize + 1
    /\ call["M1"].ret = ESHM_ERROR_BUFFER_TOO_SMALL
    /\ \E k \in DOMAIN hist.wlog :
          /\ hist.wlog[k].h = "M1" /\ hist.wlog[k].size = MaxDataSize
          /\ hist.wlog[k].done
    /\ region[named].master_to_slave.write_count = WritesDone

\* the step in which a zero-length eshm_write of h returns
EmptyWriteReturns(h) ==
    /\ call[h].op = "write" /\ call[h].size = 0
    /\ call[h].pc = "w_count"
    /\ call'[h].pc = "ret"

OnlyEmptyWrites == \A k \in DOMAIN hist.wlog : hist.wlog[k].size = 0

\* a step of the read of h that has seen the write counter beyond its baseline
ReadsNewData(h) ==
    /\ call[h].op = "read"
    /\ call'[h] # call[h]
    /\ \/ call[h].pc \in {"r_seq", "r_chk", "r_size", "r_copy", "r_retry", "r_done"}
       \/ /\ call[h].pc = "r_count"
          /\ region[Watched(h)][ReadChannel(h)].write_count > call[h].last_write_count

\* C22: a zero-length write is valid: it returns SUCCESS, advances the
\* write_count of its channel by exactly 1 and leaves the length cell 0; a
\* read of the peer that waits for new data and sees the counter beyond its
\* baseline goes on to return SUCCESS with length 0 and an empty payload.
C22_EmptyWrite ==
    /\ [][\A h \in Handles :
            /\ EmptyWriteReturns(h) =>
                  LET r == Watched(h)
                      c == WriteChannel(h)
                  IN  /\ call'[h].ret = ESHM_SUCCESS
                      /\ region'[r][c].write_count = region[r][c].write_count + 1
                      /\ region'[r][c].data_size = 0
                      /\ region' = [region EXCEPT ![r][c].write_count = @ + 1]
            /\ (ReadsNewData(h) /\ OnlyEmptyWrites) =>
                  \/ call'[h].pc \in {"r_seq", "r_chk", "r_size", "r_retry", "r_done"}
                  \/ /\ call'[h].pc = "ret"
                     /\ call'[h].ret = ESHM_SUCCESS
                     /\ call'[h].bytes_read = 0
                     /\ call'[h].buffer = <<>>]_vars
    /\ [](\A h \in Handles :
            (ReadReturned(h) /\ call[h].ret = ESHM_SUCCESS /\ OnlyEmptyWrites)
            => call[h].bytes_read = 0 /\ call[h].buffer = <<>>)

\* the SLAVE's read, entered before the MASTER's only write, a zero-length
\* one, had completed, returned SUCCESS with length 0
C22_Witness ==
    /\ ReadReturned("S")
    /\ call["S"].ret = ESHM_SUCCESS
    /\ call["S"].bytes_read = 0
    /\ call["S"].entered.done = 0
    /\ Len(hist.wlog) = 1
    /\ hist.wlog[1].size = 0 /\ hist.wlog[1].done /\ hist.wlog[1].h = "M1"
    /\ region[named].master_to_slave.write_count = 1
    /\ region[named].master_to_slave.data_size = 0

\* C23: a read into a buffer smaller than the current payload returns
\* BUFFER_TOO_SMALL without changing the region, and the payload it rejected
\* is delivered by the next read of the same handle that supplies a buffer
\* large enough, when nothing else was written.
C23_RejectedStillDelivered ==
    /\ (ReadReturned("S") /\ call["S"].ret = ESHM_ERROR_BUFFER_TOO_SMALL)
          => /\ region[named].master_to_slave.read_count = 0
             /\ region[named].master_to_slave.write_count = 1
    /\ (/\ ReadReturned("S")
        /\ call["S"].entered.rejected
        /\ Len(hist.wlog) = 1
        /\ call["S"].buffer_size >= hist.wlog[1].size)
          => call["S"].ret = ESHM_SUCCESS /\ Delivered("S", 1)

(***************************************************************************)
(* Claims about calls on a handle without a mapping.                       *)
(***************************************************************************)
InReattachMode(h) == mon[h].in_reconnect_mode /\ mon[h].pc # "done"

\* C24: eshm_write and eshm_read_timeout that find the mapping pointer NULL
\* return TIMEOUT exactly when the SLAVE's monitor is in reattach mode, and
\* NOT_INITIALIZED otherwise: a call entered after the monitor has stopped
\* because a reconnect bound was exhausted, with the pointer left NULL,
\* returns NOT_INITIALIZED.
C24_NullMappingErrors ==
    (/\ call["S"].pc = "ret"
     /\ call["S"].op \in {"write", "read"}
     /\ call["S"].entered.stopped
     /\ handle["S"].shm_data = 0)
    => /\ ~InReattachMode("S")
       /\ call["S"].ret = ESHM_ERROR_NOT_INITIALIZED

(***************************************************************************)
(* Claims about eshm_destroy.                                              *)
(***************************************************************************)
\* C25: eshm_destroy called a second time on the same handle returns
\* INVALID_PARAM and has no effect: the process goes on, the name refers to
\* what it referred to and the region is as it was.
C25_SecondDestroy ==
    /\ [](\A h \in Handles :
            call[h].entered.freed
            => /\ handle[h].proc = "destroyed"
               /\ call[h].pc = "ret"
               /\ call[h].ret = ESHM_ERROR_INVALID_PARAM)
    /\ [][\A h \in Handles :
            (handle[h].proc = "destroyed" /\ call'[h].entered.freed)
            => UNCHANGED <<named, nregions, region, maps>>]_vars

\* C26: after eshm_destroy has returned for the SLAVE, the SLAVE alive flag is
\* clear in the header of the region the handle last attached to, in whatever
\* state of the monitor the call was made, also while the mapping pointer was
\* NULL in reattach mode.
C26_DestroyClearsAlive ==
    (handle["S"].proc = "destroyed" /\ call["S"].op = "destroy" /\ call["S"].pc = "ret")
    => region[handle["S"].shm_fd].header.slave_alive = 0

(***************************************************************************)
(* Claims about eshm_init.                                                 *)
(***************************************************************************)
\* a step that is a whole eshm_init of h
InitStep(h) ==
    /\ handle[h].proc = "none"
    /\ handle'[h].proc \in {"live", "failed"}

\* C27: an init with the role SLAVE on a name under which no region exists
\* fails, returning no handle, and creates nothing: the name still does not
\* exist afterwards, no object was created and nothing is mapped.
C27_SlaveWithoutRegion ==
    [][\A h \in Handles :
         (InitStep(h) /\ handle[h].config.role = ESHM_ROLE_SLAVE /\ named = 0)
         => /\ handle'[h].proc = "failed"
            /\ named' = 0
            /\ nregions' = nregions
            /\ region' = region
            /\ maps' = maps
            /\ LiveMaps(h) = {}]_vars

\* the SLAVE's init has failed and the name is absent, in a run in which the
\* MASTER created a region and unlinked it in eshm_destroy
C27_Witness ==
    /\ handle["S"].proc = "failed"
    /\ handle["M1"].proc = "destroyed"
    /\ named = 0
    /\ nregions = 1

(***************************************************************************)
(* Claims about the heartbeat.                                             *)
(***************************************************************************)
Mapped(h) == Running(h) /\ Watched(h) # 0

\* the heartbeat cell of the side of h in the region h has mapped
OwnHeartbeat(h) ==
    IF handle[h].actual_role = ESHM_ROLE_MASTER
    THEN region[Watched(h)].header.master_heartbeat
    ELSE region[Watched(h)].header.slave_heartbeat

\* a step over which h keeps its mapping does not lower its heartbeat cell,
\* and does not change it when h runs without threads
HeartbeatKept(h) ==
    (Mapped(h) /\ Mapped(h)' /\ Watched(h)' = Watched(h))
    => /\ OwnHeartbeat(h)' >= OwnHeartbeat(h)
       /\ ~handle[h].config.use_threads => OwnHeartbeat(h)' = OwnHeartbeat(h)

\* a pass of the heartbeat loop that loads the pointer as NULL touches nothing
NullTickSkips(h) ==
    (hbt[h].pc = "loop" /\ hbt'[h] # hbt[h]
       /\ handle[h].threads_running /\ handle[h].shm_data = 0)
    => /\ hbt'[h] = [pc |-> "loop", snap |-> 0]
       /\ region' = region
       /\ hist' = hist

\* C28: while a handle with threads is mapped, the heartbeat cell of its side
\* does not decrease and, with the heartbeat thread scheduled fairly, goes on
\* to increase (up to the cap of the model); a pass of the heartbeat loop
\* that finds the mapping pointer NULL makes no access to the region; without
\* threads the heartbeat never changes.
C28_HeartbeatAdvances ==
    /\ [][\A h \in Handles : HeartbeatKept(h) /\ NullTickSkips(h)]_vars
    /\ \A h \in Handles : \A v \in 0..(MaxHeartbeat - 1) :
          (Mapped(h) /\ handle[h].threads_running /\ OwnHeartbeat(h) = v)
          ~> \/ ~(Mapped(h) /\ handle[h].threads_running)
             \/ OwnHeartbeat(h) > v

(***************************************************************************)
(* Claims about the header after eshm_init.                                *)
(***************************************************************************)
OwnPid(h) ==
    IF handle[h].actual_role = ESHM_ROLE_MASTER
    THEN region[handle[h].shm_fd].header.master_pid
    ELSE region[handle[h].shm_fd].header.slave_pid

OwnAlive(h) ==
    IF handle[h].actual_role = ESHM_ROLE_MASTER
    THEN region[handle[h].shm_fd].header.master_alive
    ELSE region[handle[h].shm_fd].header.slave_alive

\* C29: after every successful init (create, recreate, takeover, attach) the
\* mapped header has the magic and the version of the build, the PID slot of
\* the own side holds the calling process and the alive flag of the own side
\* is set; an init that attaches to or takes over a region whose magic or
\* version differs from the build's does not succeed.
C29_HeaderAfterInit ==
    [][\A h \in Handles :
         InitStep(h)
         => /\ handle'[h].proc = "live"
               => /\ region'[handle'[h].shm_fd].header.magic = ESHM_MAGIC
                  /\ region'[handle'[h].shm_fd].header.version = ESHM_VERSION
                  /\ OwnPid(h)' = h
                  /\ OwnAlive(h)' = 1
            /\ (/\ handle'[h].proc = "live"
                /\ ~handle'[h].is_creator)
               => /\ region[named].header.magic = ESHM_MAGIC
                  /\ region[named].header.version = ESHM_VERSION]_vars

(***************************************************************************)
(* Claims about the monitor of a MASTER.                                   *)
(***************************************************************************)
\* C30: a MASTER handle never enters reattach mode and is never stopped by
\* its monitor, whatever its disconnect policy: a tick that finds the SLAVE
\* heartbeat stale sets remote_is_stale and changes nothing else but the
\* stale counter, the monitor staying in its loop; the mapping pointer of
\* the MASTER is not NULL from its init to its destroy; a tick that sees the
\* SLAVE heartbeat changed clears the flag and the counter, and
\* eshm_check_remote_alive reports the negation of the flag.
C30_MasterMonitor ==
    /\ [](/\ ~mon["M1"].in_reconnect_mode
          /\ mon["M1"].stopped_by = "none"
          /\ Running("M1") => handle["M1"].shm_data # 0)
    /\ [][/\ (~handle["M1"].remote_is_stale /\ handle'["M1"].remote_is_stale)
             => /\ mon' = mon
                /\ mon["M1"].pc = "tick"
                /\ handle' = [handle EXCEPT
                       !["M1"].remote_is_stale = TRUE,
                       !["M1"].stale_counter = handle'["M1"].stale_counter]
                /\ region' = region /\ maps' = maps
          /\ (Running("M1") /\ mon["M1"].pc = "tick"
              /\ handle'["M1"].last_remote_heartbeat
                     # handle["M1"].last_remote_heartbeat)
             => /\ handle'["M1"].last_remote_heartbeat
                       = region[handle["M1"].shm_fd].header.slave_heartbeat
                /\ handle'["M1"].stale_counter = 0
                /\ ~handle'["M1"].remote_is_stale
          /\ (call'["M1"] # call["M1"] /\ call'["M1"].op = "alive")
             => call'["M1"].is_alive = ~handle["M1"].remote_is_stale]_vars

\* a MASTER with the policy IMMEDIATELY has declared its SLAVE stale, has
\* then seen the SLAVE's heartbeat change, and its caller is told the remote
\* is alive while the monitor is still in its loop
C30_Witness ==
    /\ Running("M1")
    /\ handle["M1"].config.disconnect_behavior = ESHM_DISCONNECT_IMMEDIATELY
    /\ hist.stale_generation["M1"] # 0
    /\ handle["M1"].last_remote_heartbeat = MaxHeartbeat
    /\ ~handle["M1"].remote_is_stale
    /\ handle["M1"].threads_running
    /\ mon["M1"].pc = "tick"
    /\ call["M1"].op = "alive" /\ call["M1"].is_alive

(***************************************************************************)
(* Claims about the termination of a read.                                 *)
(***************************************************************************)
\* C31: a read with a finite timeout terminates, whatever the peer does, a
\* writer that stops for ever between seqlock_write_begin and
\* seqlock_write_end included; it returns SUCCESS, NO_DATA, TIMEOUT or an
\* error, and with SUCCESS it delivers the whole payload of one write.
C31_ReadTerminates ==
    /\ [](ReadReturned("S")
          => /\ call["S"].ret \in {ESHM_SUCCESS, ESHM_ERROR_NO_DATA,
                                   ESHM_ERROR_TIMEOUT, ESHM_ERROR_BUFFER_TOO_SMALL}
             /\ call["S"].ret = ESHM_SUCCESS
                => \E k \in DOMAIN hist.wlog : Delivered("S", k))
    /\ (call["S"].op = "read" /\ call["S"].pc # "ret") ~> ReadReturned("S")

(***************************************************************************)
(* Claims about the name given to eshm_init.                               *)
(***************************************************************************)
\* C32: an init whose name is absent (a NULL pointer) or the empty string
\* fails, and creates or modifies no region: the name space, the objects
\* and the mappings are as before.
C32_InvalidName ==
    [][\A h \in Handles :
         (InitStep(h) /\ handle[h].config.shm_name \in {NoName, <<"">>})
         => /\ handle'[h].proc = "failed"
            /\ named' = named
            /\ nregions' = nregions
            /\ region' = region
            /\ maps' = maps]_vars

(***************************************************************************)
(* Claims about the baseline of a read.                                    *)
(***************************************************************************)
\* the writes whose write_count increment came before the call of h entered
\* and whose payload, not being empty, tells them from every other write
CountedBefore(h) ==
    {k \in DOMAIN hist.wlog :
        /\ hist.wlog[k].done
        /\ hist.wlog[k].size > 0
        /\ Cardinality({j \in 1..k : hist.wlog[j].done}) <= call[h].entered.done}

InSeqlockLoop(h) ==
    /\ call[h].op = "read"
    /\ call[h].pc \in {"r_seq", "r_chk", "r_size", "r_copy", "r_retry", "r_done"}

\* C33: eshm_read_timeout samples write_count once, at the entry of the call
\* (the value the channel holds then), and goes on to SUCCESS only after it
\* has seen write_count greater than the sample; with timeout_ms = 0 and no
\* such advance it returns NO_DATA and leaves the region and the handle as
\* they were; a write counted before the call entered is not delivered by
\* the call.
C33_PerCallBaseline ==
    /\ [][/\ (call["S"].pc = "r_base" /\ call'["S"].pc = "r_poll")
             => call'["S"].last_write_count
                    = region[handle["S"].shm_fd][ReadChannel("S")].write_count
          /\ (call["S"].op = "read" /\ call["S"].pc \notin {"r_base", "ret"}
              /\ call'["S"].pc # "ret")
             => call'["S"].last_write_count = call["S"].last_write_count
          /\ (ReadReturned("S")' /\ ~ReadReturned("S")
              /\ call'["S"].ret = ESHM_SUCCESS)
             => call["S"].pc = "r_done"
          /\ (call["S"].pc = "r_count" /\ call'["S"] # call["S"]
              /\ call["S"].timeout_ms = 0
              /\ region[handle["S"].shm_fd][ReadChannel("S")].write_count
                     <= call["S"].last_write_count)
             => /\ ReadReturned("S")' /\ call'["S"].ret = ESHM_ERROR_NO_DATA
                /\ region' = region /\ handle' = handle /\ maps' = maps]_vars
    /\ [](InSeqlockLoop("S")
          => region[handle["S"].shm_fd][ReadChannel("S")].write_count
                 > call["S"].last_write_count)
    /\ []((ReadReturned("S") /\ call["S"].ret = ESHM_SUCCESS)
          => \A k \in CountedBefore("S") : ~Delivered("S", k))

\* a read entered after the first write was counted has returned SUCCESS
\* with the payload of the second write
C33_Witness ==
    /\ ReadReturned("S") /\ call["S"].ret = ESHM_SUCCESS
    /\ call["S"].entered.done = 1
    /\ CountedBefore("S") = {1}
    /\ Delivered("S", 2)

(***************************************************************************)
(* Claims about the threshold of the monitor.                              *)
(***************************************************************************)
\* a tick of the monitor of h that found the remote heartbeat as last seen
QuietTickOf(h) ==
    /\ mon[h].pc = "tick"
    /\ handle'[h].stale_counter = handle[h].stale_counter + check_interval_ms

\* a tick of the monitor of h that found another remote heartbeat
ChangeTickOf(h) ==
    /\ Running(h)
    /\ mon[h].pc = "tick"
    /\ handle[h].shm_data # 0
    /\ handle'[h].last_remote_heartbeat # handle[h].last_remote_heartbeat

\* C34: the monitor declares the peer stale exactly on the first tick at
\* which the heartbeat has been as last observed for k ticks in a row with
\* k * 10 >= the stale_threshold_ms the handle itself was configured with;
\* a tick that observes another heartbeat sets the stale counter to 0,
\* clears the flag and takes the heartbeat as last observed.
C34_OwnThreshold ==
    [][\A h \in {"M1", "S"} :
         /\ QuietTickOf(h)
            => (/\ ~handle[h].remote_is_stale
                /\ handle'[h].remote_is_stale)
               <=> (/\ handle'[h].stale_counter >= handle[h].config.stale_threshold_ms
                    /\ handle[h].stale_counter < handle[h].config.stale_threshold_ms)
         /\ ChangeTickOf(h)
            => /\ handle'[h].stale_counter = 0
               /\ ~handle'[h].remote_is_stale
               /\ handle'[h].last_remote_heartbeat
                      = IF h = "S"
                        THEN region[Watched(h)].header.master_heartbeat
                        ELSE region[Watched(h)].header.slave_heartbeat]_vars

(***************************************************************************)
(* Claims about an attempt to reattach.                                    *)
(***************************************************************************)
\* the step of the monitor of h that ends an attempt
AttemptEnds(h) == mon[h].pc = "attach" /\ mon'[h].pc # "attach"

\* the object the attempt opens has a valid magic and a MASTER heartbeat
\* other than the last one observed
Adoptable(h) ==
    /\ named # 0
    /\ region[named].header.magic = ESHM_MAGIC
    /\ region[named].header.master_heartbeat # handle[h].last_remote_heartbeat

\* C35: an attempt of the SLAVE's monitor adopts the region it opened if and
\* only if the magic is valid and the MASTER heartbeat differs from the last
\* one observed.  On adoption the new mapping is stored, slave_pid and
\* slave_alive are written, the stale flag and the stale counter are
\* cleared, the adopted heartbeat becomes the last one observed and the
\* reconnect counters are reset and the mode left; otherwise the candidate
\* is unmapped, the mapping pointer stays NULL, nothing is written to any
\* region, and the attempt has been counted.
C35_ReattachAttempt ==
    [][AttemptEnds("S")
       => /\ handle["S"].shm_data = 0
          /\ (handle'["S"].shm_data # 0) <=> Adoptable("S")
          /\ Adoptable("S")
             => /\ maps'["S"][handle'["S"].shm_data].live
                /\ maps'["S"][handle'["S"].shm_data].region = named
                /\ handle'["S"].shm_fd = named
                /\ region' = [region EXCEPT ![named].header.slave_pid = "S",
                                            ![named].header.slave_alive = 1]
                /\ ~handle'["S"].remote_is_stale
                /\ handle'["S"].stale_counter = 0
                /\ handle'["S"].last_remote_heartbeat
                       = region[named].header.master_heartbeat
                /\ ~mon'["S"].in_reconnect_mode
                /\ mon'["S"].reconnect_wait_counter = 0
                /\ mon'["S"].reconnect_attempt_counter = 0
                /\ mon'["S"].reconnect_attempts = 0
          /\ ~Adoptable("S")
             => /\ maps' = maps
                /\ LiveMaps("S") = {}
                /\ region' = region
                /\ handle'["S"].remote_is_stale
                /\ mon'["S"].in_reconnect_mode
                /\ mon'["S"].reconnect_attempts = mon["S"].reconnect_attempts
                /\ mon["S"].reconnect_attempts >= 1]_vars

\* the monitor, having made attempts that found no object, a region being
\* initialized or an unchanged heartbeat, has adopted the region of the
\* second MASTER
C35_Witness ==
    /\ Running("S") /\ handle["S"].nmaps = 2
    /\ Live("S", handle["S"].shm_data)
    /\ handle["S"].shm_fd = 2
    /\ region[2].header.slave_pid = "S"
    /\ handle["M1"].proc = "destroyed"
    /\ ~mon["S"].in_reconnect_mode
    /\ handle["S"].last_remote_heartbeat = 1

(***************************************************************************)
(* Claims about the unlink of eshm_destroy.                                *)
(***************************************************************************)
\* C36: the destroy of a creator removes only the object that handle
\* created: when another MASTER has unlinked and recreated the region under
\* the name in the meantime, the destroy of the earlier creator leaves the
\* name referring to the newer region, which stays attachable by name.
C36_DestroyOwnObject ==
    [][\A h \in Masters :
         (/\ Running(h) /\ handle'[h].proc = "destroyed"
          /\ handle[h].is_creator
          /\ named # 0 /\ named # handle[h].shm_fd)
         => named' = named]_vars

(***************************************************************************)
(* Claims about repeated delivery.                                         *)
(***************************************************************************)
\* C37: with one writer and one reader, two successive calls of
\* eshm_read_timeout that both return SUCCESS never deliver the payload of
\* the same write, however the reader's steps fall between the writer's
\* seqlock_write_end and its increment of write_count.
C37_NoDuplicateDelivery ==
    \A k \in DOMAIN hist.wlog :
        (/\ ReadReturned("S") /\ call["S"].ret = ESHM_SUCCESS
         /\ hist.wlog[k].size > 0
         /\ Delivered("S", k))
        => call["S"].prev # k

(***************************************************************************)
(* Claims about the caller's buffer.                                       *)
(***************************************************************************)
\* C38: eshm_read_timeout never copies more than buffer_size bytes into the
\* buffer of the caller, also when a concurrent writer changes the length
\* cell of the channel between the reader's size check and its copy.
C38_CopyWithinBuffer ==
    call["S"].op = "read" => Len(call["S"].buffer) <= call["S"].buffer_size

(***************************************************************************)
(* Claims about the mapping pointer and the stale flag.                    *)
(***************************************************************************)
\* C39: in every state of a handle between its init and its destroy, a NULL
\* mapping pointer implies that remote_is_stale is set; hence eshm_write and
\* eshm_read_timeout never return NOT_INITIALIZED on such a handle.
C39_NullImpliesStale ==
    \A h \in Handles :
        /\ (Running(h) /\ handle[h].shm_data = 0) => handle[h].remote_is_stale
        /\ (Running(h) /\ call[h].pc = "ret" /\ call[h].op \in {"write", "read"})
           => call[h].ret # ESHM_ERROR_NOT_INITIALIZED

====
